---- MODULE Spec2Model ----
\* Verification model of the search-quality pipeline of the hot-take generator
\* backend (backend/app/services/search_quality.py and
\* backend/app/services/news_search_service.py).
\*
\* Python strings are modelled as sequences of one-character strings, so that
\* strip / lower / removeprefix / urlparse / tokenize are computed, not assumed.
\* Datetimes are integers counted in ticks (TicksPerDay ticks to a day).
\* Floating-point scores are modelled exactly, as integers scaled by a common
\* denominator (see ScoreScale).
EXTENDS Integers, Sequences, FiniteSets, TLC

VARIABLES
    now,              \* datetime.now(timezone.utc), in ticks
    allowlist,        \* SearchQualityConfig.allowlist
    blocklist,        \* SearchQualityConfig.blocklist
    trusted_domains,  \* SearchQualityConfig.trusted_domains
    score_weights,    \* SearchQualityConfig.score_weights (hundredths)
    newsapi_client,   \* NewsSearchService.newsapi_client: "None" without an API key
    response,         \* what NewsApiClient.get_everything answers when called
    requests,         \* the calls made to a provider so far (request parameters)
    api_key,          \* settings.newsapi_api_key, brave_api_key, serper_api_key
    http,             \* what the web-search endpoint answers when called
    web,              \* what the web search service answers when called
    llm,              \* what the LLM agent produces when called
    cache,            \* CacheService: client, max_variants, the pool under the request's key
    prompts,          \* the calls made to the LLM agent so far
    events,           \* the events stream_hot_take has yielded so far
    frame,            \* stream_hot_take's position and locals
    limiter,          \* the rate limiter: its settings and request_timestamps_by_ip
    admitted,         \* per client IP, the times of the requests that passed the limiter
    fn,               \* the function or handler that ran last ("idle" before any)
    args,             \* its arguments
    ret               \* its result

vars == <<now, allowlist, blocklist, trusted_domains, score_weights,
          newsapi_client, response, requests, api_key, http,
          web, llm, cache, prompts, events, frame, limiter, admitted, fn, args, ret>>

-----------------------------------------------------------------------------
\* Python str primitives over sequences of characters.
\*
\* Let(e, F) is F(e) with e evaluated once: Python evaluates an argument or a
\* local before using it, where a TLA+ LET or operator argument is re-evaluated
\* at every use.

Let(e, F(_)) == CHOOSE r \in {F(v) : v \in {e}} : TRUE

SetMin(S0) == Let(S0, LAMBDA S : CHOOSE i \in S : \A j \in S : i <= j)

SetMax(S0) == Let(S0, LAMBDA S : CHOOSE i \in S : \A j \in S : i >= j)

Whitespace == {" ", "\t", "\n", "\r"}

UpperChars == <<"A","B","C","D","E","F","G","H","I","J","K","L","M",
                "N","O","P","Q","R","S","T","U","V","W","X","Y","Z">>

LowerChars == <<"a","b","c","d","e","f","g","h","i","j","k","l","m",
                "n","o","p","q","r","s","t","u","v","w","x","y","z">>

Digits == {"0","1","2","3","4","5","6","7","8","9"}

UpperSet == {UpperChars[i] : i \in DOMAIN UpperChars}

LowerSet == {LowerChars[i] : i \in DOMAIN LowerChars}

ToLower == [c \in UpperSet |-> LowerChars[CHOOSE i \in DOMAIN UpperChars : UpperChars[i] = c]]

Range(f) == {f[i] : i \in DOMAIN f}

IsAlpha(c) == c \in UpperSet \/ c \in LowerSet

lower_char(c) == IF c \in UpperSet THEN ToLower[c] ELSE c

\* str.lower()
lower(s0) == Let(s0, LAMBDA s : [i \in DOMAIN s |-> lower_char(s[i])])

\* s[a-1:b] for 1-based inclusive positions a..b
Slice(s, a, b) == IF a > b THEN <<>> ELSE SubSeq(s, a, b)

\* str.lstrip(chars)
lstrip(s0, chars) ==
    Let(s0, LAMBDA s :
        Slice(s, CHOOSE i \in 1..(Len(s) + 1) : i > Len(s) \/ s[i] \notin chars, Len(s)))

\* str.rstrip(chars)
rstrip(s0, chars) ==
    Let(s0, LAMBDA s :
        Slice(s, 1, Len(s) - (CHOOSE k \in 0..Len(s) : k = Len(s) \/ s[Len(s) - k] \notin chars)))

\* str.strip()
strip(s) == rstrip(lstrip(s, Whitespace), Whitespace)

\* s.startswith(p)
startswith(s0, p) == Let(s0, LAMBDA s : Len(s) >= Len(p) /\ Slice(s, 1, Len(p)) = p)

\* str.removeprefix(p): the prefix is removed once
removeprefix(s0, p) ==
    Let(s0, LAMBDA s : IF startswith(s, p) THEN Slice(s, Len(p) + 1, Len(s)) ELSE s)

\* s.find(sub) with 1-based positions; 0 when sub does not occur (Python's -1)
find(s0, sub0) ==
    Let(s0, LAMBDA s :
    Let(sub0, LAMBDA sub :
    Let({i \in 1..(Len(s) - Len(sub) + 1) : Slice(s, i, i + Len(sub) - 1) = sub},
        LAMBDA hits : IF hits = {} THEN 0 ELSE SetMin(hits))))

\* sub in s
contains(s, sub) == find(s, sub) > 0

\* first position of any character of chars at or after position from; 0 if none
FindAny(s0, chars, from) ==
    Let(s0, LAMBDA s :
    Let({i \in from..Len(s) : s[i] \in chars},
        LAMBDA hits : IF hits = {} THEN 0 ELSE SetMin(hits)))

\* s.replace(c, "") for every c in chars
RemoveChars(s, chars) == SelectSeq(s, LAMBDA c : c \notin chars)

\* str.split(sep) for a one-character separator
RECURSIVE split(_, _)
split(s0, sep) ==
    Let(s0, LAMBDA s :
    Let(FindAny(s, {sep}, 1), LAMBDA i :
        IF i = 0 THEN <<s>>
        ELSE <<Slice(s, 1, i - 1)>> \o split(Slice(s, i + 1, Len(s)), sep)))

-----------------------------------------------------------------------------
\* urllib.parse.urlparse, as far as extract_domain and normalize_url use it:
\* scheme detection, netloc up to the first of / ? #, path without query,
\* fragment and ;params, ValueError for an unbalanced IPv6 bracket.

SchemeChars == UpperSet \cup LowerSet \cup Digits \cup {"+", "-", "."}

\* urllib.parse.uses_params: the schemes whose last path segment may carry ;params
uses_params ==
    { <<>>,
      <<"f","t","p">>, <<"h","d","l">>, <<"p","r","o","s","p","e","r","o">>,
      <<"h","t","t","p">>, <<"i","m","a","p">>, <<"h","t","t","p","s">>,
      <<"s","h","t","t","p">>, <<"r","t","s","p">>, <<"r","t","s","p","s">>,
      <<"r","t","s","p","u">>, <<"s","i","p">>, <<"s","i","p","s">>,
      <<"m","m","s">>, <<"s","f","t","p">>, <<"t","e","l">> }

\* urlsplit step 1: <<scheme, rest>>
SplitScheme(url0) ==
    Let(url0, LAMBDA url :
    Let(FindAny(url, {":"}, 1), LAMBDA colon :
        IF /\ colon > 1
           /\ IsAlpha(url[1])
           /\ \A i \in 1..(colon - 1) : url[i] \in SchemeChars
        THEN <<lower(Slice(url, 1, colon - 1)), Slice(url, colon + 1, Len(url))>>
        ELSE <<<<>>, url>>))

\* urlsplit step 2 (_splitnetloc): <<netloc, rest>>
SplitNetloc(url0) ==
    Let(url0, LAMBDA url :
        IF startswith(url, <<"/", "/">>)
        THEN Let(FindAny(url, {"/", "?", "#"}, 3), LAMBDA delim :
                 IF delim = 0 THEN <<Slice(url, 3, Len(url)), <<>>>>
                 ELSE <<Slice(url, 3, delim - 1), Slice(url, delim, Len(url))>>)
        ELSE <<<<>>, url>>)

\* the part of s before the first occurrence of a character of chars
Before(s0, chars) ==
    Let(s0, LAMBDA s :
    Let(FindAny(s, chars, 1), LAMBDA i : IF i = 0 THEN s ELSE Slice(s, 1, i - 1)))

\* _splitparams: the path without the ;params of its last segment
SplitParams(url0) ==
    Let(url0, LAMBDA url :
    Let({i \in DOMAIN url : url[i] = "/"}, LAMBDA slashes :
    Let(FindAny(url, {";"}, IF slashes = {} THEN 1 ELSE SetMax(slashes)), LAMBDA semi :
        IF semi = 0 THEN url ELSE Slice(url, 1, semi - 1))))

urlparse(url0) ==
    Let(SplitScheme(RemoveChars(lstrip(url0, Whitespace), {"\t", "\r", "\n"})), LAMBDA s :
    Let(SplitNetloc(s[2]), LAMBDA n :
    Let(Before(Before(n[2], {"#"}), {"?"}), LAMBDA url :
        [raises |-> ("[" \in Range(n[1])) # ("]" \in Range(n[1])),
         netloc |-> n[1],
         path   |-> IF s[1] \in uses_params THEN SplitParams(url) ELSE url])))

WwwDot == <<"w", "w", "w", ".">>

SchemeSep == <<":", "/", "/">>

\* extract_domain(value) raises ValueError
extract_domain_raises(value) ==
    Let(lower(strip(value)), LAMBDA domain :
        contains(domain, SchemeSep) /\ urlparse(domain).raises)

extract_domain(value) ==
    IF value = <<>> THEN <<>>
    ELSE Let(lower(strip(value)), LAMBDA domain :
             IF contains(domain, SchemeSep)
             THEN removeprefix(lower(urlparse(domain).netloc), WwwDot)
             ELSE removeprefix(domain, WwwDot))

\* normalize_url(url) raises ValueError
normalize_url_raises(url) == urlparse(strip(url)).raises

normalize_url(url) ==
    IF url = <<>> THEN <<>>
    ELSE Let(urlparse(strip(url)), LAMBDA parsed :
             removeprefix(lower(parsed.netloc), WwwDot) \o rstrip(parsed.path, {"/"}))

parse_domain_list(raw) ==
    IF raw = <<>> THEN {}
    ELSE {removeprefix(lower(entry), WwwDot) :
             entry \in {strip(e) : e \in Range(split(raw, ","))} \ {<<>>}}

\* _TOKEN_RE = [a-z0-9]{2,} applied to the lowercased text: the maximal runs of
\* alphanumeric characters that are at least two characters long
TokenChars == LowerSet \cup Digits

tokenize(text) ==
    Let(lower(text), LAMBDA t :
    Let({i \in DOMAIN t : t[i] \in TokenChars}, LAMBDA tok :
        {Slice(t, i, SetMin({j \in tok : j >= i /\ (j + 1) \notin tok})) :
            i \in {s \in tok : (s - 1) \notin tok /\ (s + 1) \in tok}}))

-----------------------------------------------------------------------------
\* Bounds of the model

\* datetimes are counted in ticks; this many ticks make one day
TicksPerDay == 2

\* longest record list handed to a pipeline stage
MaxRecords == 3

-----------------------------------------------------------------------------
\* Character strings used as inputs

Fill(c, n) == [i \in 1..n |-> c]

HostX == <<"x", ".", "c">>

HostY == <<"y", ".", "c">>

Scheme == <<"h">> \o SchemeSep

\* SEARCH_DOMAIN_ALLOWLIST / SEARCH_DOMAIN_BLOCKLIST settings the service may be
\* constructed with (comma-separated, spaces, www. prefixes and upper case)
RawDomainLists ==
    { <<>>,
      HostX,
      WwwDot \o HostX \o <<",">> \o HostY,
      <<" ", "Y", ".", "c", " ", ",", ",">>,
      WwwDot \o WwwDot \o HostX \o <<",">> \o HostX }

DomainLists == {parse_domain_list(raw) : raw \in RawDomainLists}

\* SEARCH_TRUSTED_DOMAINS setting
RawTrustedDomains == HostX

\* search_score_weight_* settings in hundredths (config.py defaults)
DefaultWeights ==
    [relevance_weight |-> 60, recency_weight |-> 20, snippet_weight |-> 10,
     domain_weight |-> 10, strict_no_overlap_penalty |-> 35]

\* values passed as the domain argument of domain_allowed
DomainInputs ==
    { <<>>,
      HostX,
      WwwDot \o HostX,
      WwwDot \o WwwDot \o HostX,
      Scheme \o WwwDot \o HostX \o <<"/", "a">>,
      <<" ", "Y", ".", "C", " ">>,
      <<"z", ".", "c">>,
      Scheme }

-----------------------------------------------------------------------------
\* Domain policy

\* the allowlist is consulted before the blocklist
domain_allowed_allow_first(domain, allow, block) ==
    LET normalized == extract_domain(domain)
    IN  IF normalized = <<>> THEN FALSE
        ELSE IF allow # {} /\ normalized \in allow THEN TRUE
        ELSE IF normalized \in block THEN FALSE
        ELSE IF allow # {} /\ normalized \notin allow THEN FALSE
        ELSE TRUE

domain_allowed(domain, allow, block) ==
    LET normalized == extract_domain(domain)
    IN  IF normalized = <<>> THEN FALSE
        ELSE IF normalized \in block THEN FALSE
        ELSE IF allow # {} /\ normalized \notin allow THEN FALSE
        ELSE TRUE

\* state after construction of the service; no call made yet
Idle == fn = "idle" /\ args = <<>> /\ ret = <<>>

\* a service built without settings.newsapi_api_key: no client, nothing requested
\* the rate limiter of the API is not in use
NoLimiter == limiter = <<>> /\ admitted = <<>>

Limiter == <<limiter, admitted>>

NoHotTake ==
    /\ web = <<>> /\ llm = <<>> /\ cache = <<>>
    /\ prompts = <<>> /\ events = <<>> /\ frame = <<>>
    /\ NoLimiter

HotTake == <<web, llm, cache, prompts, events, frame, Limiter>>

NoClient ==
    /\ newsapi_client = "None" /\ response = <<>> /\ requests = <<>>
    /\ api_key = [newsapi |-> <<"None">>, brave |-> <<"None">>, serper |-> <<"None">>]
    /\ http = <<>>
    /\ NoHotTake

InitDomain ==
    /\ NoClient
    /\ now = 0
    /\ allowlist \in DomainLists
    /\ blocklist \in DomainLists
    /\ trusted_domains = parse_domain_list(RawTrustedDomains)
    /\ score_weights = DefaultWeights
    /\ Idle

Config == <<now, allowlist, blocklist, trusted_domains, score_weights,
            newsapi_client, response, requests, api_key, http, HotTake>>

CallDomainAllowed ==
    \E d \in DomainInputs :
        /\ fn' = "domain_allowed"
        /\ args' = [domain |-> d, allowlist |-> allowlist, blocklist |-> blocklist]
        /\ ret' = domain_allowed(d, allowlist, blocklist)
        /\ UNCHANGED Config

NextDomain == CallDomainAllowed

SpecDomain == InitDomain /\ [][NextDomain]_vars

\* C1: domain_allowed(d, A, B) is true exactly when the normalized d is
\* non-empty, is not in B, and (A is empty or the normalized d is in A); a
\* normalized domain present in both A and B is never allowed (blocklist wins).
DomainPolicyHolds ==
    fn = "domain_allowed" =>
        LET n == extract_domain(args.domain)
            A == args.allowlist
            B == args.blocklist
        IN  /\ ret = (n # <<>> /\ n \notin B /\ (A = {} \/ n \in A))
            /\ (n \in A \cap B => ret = FALSE)

\* a call with a domain listed in both lists: it was rejected
DomainPolicyWitness ==
    /\ fn = "domain_allowed"
    /\ extract_domain(args.domain) \in args.allowlist \cap args.blocklist
    /\ args.domain # extract_domain(args.domain)
    /\ ret = FALSE

-----------------------------------------------------------------------------
\* Deduplicator

\* dict.get(key, default)
Get(record, key, default) == IF key \in DOMAIN record THEN record[key] ELSE default

\* the sequences over S of length at most n
SeqsUpTo(S, n) == UNION {[1..k -> S] : k \in 0..n}

\* the elements of seq at the positions in idx, in order
RECURSIVE Pick(_, _)
Pick(seq, idx0) ==
    Let(idx0, LAMBDA idx :
        IF idx = {} THEN <<>>
        ELSE Let(SetMin(idx), LAMBDA i : <<seq[i]>> \o Pick(seq, idx \ {i})))

\* the title is tried before the url
DedupKey_title_first(record) ==
    Let(strip(Get(record, "title", <<>>)), LAMBDA t :
        IF t # <<>> THEN t ELSE normalize_url(Get(record, "url", <<>>)))

\* key = normalize_url(record.get("url", "")) or record.get("title", "").strip()
DedupKey(record) ==
    Let(normalize_url(Get(record, "url", <<>>)), LAMBDA n :
        IF n # <<>> THEN n ELSE strip(Get(record, "title", <<>>)))

\* a duplicate is removed from the list being iterated, so the record after it
\* is never visited and stays in the list
RECURSIVE DedupeFrom_remove_while_iterating(_, _, _, _)
DedupeFrom_remove_while_iterating(records, i, seen0, deduped0) ==
    Let(seen0, LAMBDA seen :
    Let(deduped0, LAMBDA deduped :
        IF i > Len(records) THEN deduped
        ELSE Let(DedupKey(records[i]), LAMBDA key :
                 IF key = <<>> \/ key \in seen
                 THEN DedupeFrom_remove_while_iterating(
                          records, i + 2, seen,
                          IF i + 1 <= Len(records)
                          THEN Append(deduped, records[i + 1]) ELSE deduped)
                 ELSE DedupeFrom_remove_while_iterating(
                          records, i + 1, seen \cup {key}, Append(deduped, records[i])))))

\* a later record with a key already seen replaces the one kept for that key
RECURSIVE DedupeFrom_last_wins(_, _, _, _)
DedupeFrom_last_wins(records, i, seen0, deduped0) ==
    Let(seen0, LAMBDA seen :
    Let(deduped0, LAMBDA deduped :
        IF i > Len(records) THEN deduped
        ELSE Let(DedupKey(records[i]), LAMBDA key :
                 IF key = <<>> THEN DedupeFrom_last_wins(records, i + 1, seen, deduped)
                 ELSE IF key \in seen
                 THEN DedupeFrom_last_wins(
                          records, i + 1, seen,
                          [k \in DOMAIN deduped |->
                              IF DedupKey(deduped[k]) = key THEN records[i] ELSE deduped[k]])
                 ELSE DedupeFrom_last_wins(
                          records, i + 1, seen \cup {key}, Append(deduped, records[i])))))

\* the loop of dedupe_records from record i on, with the keys seen and the
\* records kept so far
RECURSIVE DedupeFrom(_, _, _, _)
DedupeFrom(records, i, seen0, deduped0) ==
    Let(seen0, LAMBDA seen :
    Let(deduped0, LAMBDA deduped :
        IF i > Len(records) THEN deduped
        ELSE Let(DedupKey(records[i]), LAMBDA key :
                 IF key = <<>> \/ key \in seen
                 THEN DedupeFrom(records, i + 1, seen, deduped)
                 ELSE DedupeFrom(records, i + 1, seen \cup {key}, Append(deduped, records[i])))))

dedupe_records(records) == Let(records, LAMBDA rs : DedupeFrom(rs, 1, {}, <<>>))

\* records handed to dedupe_records: urls written differently that normalize
\* to the same string, a url that normalizes to nothing, no url, titles that
\* differ only in surrounding blanks
UrlXa == Scheme \o WwwDot \o HostX \o <<"/", "a">>

UrlXaVariant == <<"H">> \o SchemeSep \o <<"X", ".", "c", "/", "a", "/">>

UrlYb == Scheme \o HostY \o <<"/", "b">>

DedupeInputs ==
    { [title |-> <<>>,              url |-> <<>>],
      [title |-> <<"t">>,           url |-> <<>>],
      [title |-> <<" ", "t", " ">>, url |-> <<>>],
      [title |-> <<"t">>,           url |-> <<"/">>],
      [title |-> <<>>,              url |-> <<"/">>],
      [title |-> <<"t">>,           url |-> UrlXa],
      [title |-> <<" ", "t", " ">>, url |-> UrlXaVariant],
      [title |-> <<>>,              url |-> UrlXaVariant],
      [title |-> <<"t">>,           url |-> UrlYb] }

InitDedupe ==
    /\ NoClient
    /\ now = 0
    /\ allowlist = {}
    /\ blocklist = {}
    /\ trusted_domains = parse_domain_list(RawTrustedDomains)
    /\ score_weights = DefaultWeights
    /\ fn = "idle"
    /\ args \in {[records |-> rs] : rs \in SeqsUpTo(DedupeInputs, MaxRecords)}
    /\ ret = <<>>

CallDedupeRecords ==
    /\ fn = "idle"
    /\ fn' = "dedupe_records"
    /\ ret' = dedupe_records(args.records)
    /\ UNCHANGED <<Config, args>>

NextDedupe == CallDedupeRecords

SpecDedupe == InitDedupe /\ [][NextDedupe]_vars

\* the dedup key as the specification words it, with "url present" read as
\* "url normalizes to a non-empty string"
KeyOf(record) ==
    IF normalize_url(record.url) # <<>> THEN normalize_url(record.url)
    ELSE strip(record.title)

\* the dedup key as the claim words it: the url decides whenever it is non-empty
KeyOfPresentUrl(record) ==
    IF record.url # <<>> THEN normalize_url(record.url) ELSE strip(record.title)

\* positions of the records that are the first with their (non-empty) key
FirstWithKey(X, K(_)) ==
    {i \in DOMAIN X : K(X[i]) # <<>> /\ \A j \in 1..(i - 1) : K(X[j]) # K(X[i])}

\* C2: dedupe_records is idempotent: dedupe_records(dedupe_records(X)) equals
\* dedupe_records(X) for every record list X.
DedupeIdempotent ==
    fn = "dedupe_records" => dedupe_records(ret) = ret

\* a call that dropped something, so that the second pass has work to refuse
DedupeIdempotentWitness ==
    /\ fn = "dedupe_records"
    /\ 0 < Len(ret)
    /\ Len(ret) < Len(args.records)

\* C3: the result is a subsequence of the input, no two kept records share a
\* dedup key, and the record kept for a key is the earliest input record with
\* that key, even when a later record with the key differs in other fields.
DedupeFirstWins ==
    fn = "dedupe_records" =>
        LET X == args.records
        IN  /\ \E idx \in SUBSET DOMAIN X : ret = Pick(X, idx)
            /\ \A a, b \in DOMAIN ret : a # b => KeyOf(ret[a]) # KeyOf(ret[b])
            /\ \A a \in DOMAIN ret :
                   ret[a] = X[SetMin({i \in DOMAIN X : KeyOf(X[i]) = KeyOf(ret[a])})]

\* two records with the same key but different fields came in; the first was kept
DedupeFirstWinsWitness ==
    /\ fn = "dedupe_records"
    /\ \E i, j \in DOMAIN args.records :
           /\ i < j
           /\ KeyOf(args.records[i]) = KeyOf(args.records[j])
           /\ KeyOf(args.records[i]) # <<>>
           /\ args.records[i] # args.records[j]
           /\ \E a \in DOMAIN ret : ret[a] = args.records[i]
           /\ \A a \in DOMAIN ret : ret[a] # args.records[j]

\* C4 (as amended): the key is normalize_url(url) whenever that is non-empty and
\* the trimmed title otherwise; records with an empty key are dropped; the
\* result is exactly the records that are first with their key, so two records
\* whose urls normalize to non-empty strings are merged only when those strings
\* are equal, whatever their titles.
DedupeKeyIsNormalizedUrlElseTitle ==
    fn = "dedupe_records" =>
        LET X == args.records
        IN  /\ ret = Pick(X, FirstWithKey(X, KeyOf))
            /\ \A i, j \in DOMAIN X :
                   /\ i < j
                   /\ normalize_url(X[i].url) # <<>>
                   /\ normalize_url(X[j].url) # <<>>
                   /\ normalize_url(X[i].url) # normalize_url(X[j].url)
                   /\ i \in FirstWithKey(X, KeyOf)
                   /\ \A k \in 1..(j - 1) : normalize_url(X[k].url) # normalize_url(X[j].url)
                   => \E a, b \in DOMAIN ret : a < b /\ ret[a] = X[i] /\ ret[b] = X[j]

\* two differently written urls that normalize to the same string were merged,
\* and two records with equal titles but different urls were both kept
DedupeKeyWitness ==
    /\ fn = "dedupe_records"
    /\ \E i, j \in DOMAIN args.records :
           /\ i < j
           /\ args.records[i].url # args.records[j].url
           /\ normalize_url(args.records[i].url) = normalize_url(args.records[j].url)
           /\ normalize_url(args.records[i].url) # <<>>
           /\ \A a \in DOMAIN ret : ret[a].url # args.records[j].url
    /\ \E a, b \in DOMAIN ret :
           /\ a # b
           /\ strip(ret[a].title) = strip(ret[b].title)
           /\ strip(ret[a].title) # <<>>

\* C4 (as stated): the key is normalize_url(url) whenever the url is non-empty,
\* so a record whose non-empty url normalizes to the empty string is dropped.
DedupeKeyIsUrlWheneverPresent ==
    fn = "dedupe_records" =>
        ret = Pick(args.records, FirstWithKey(args.records, KeyOfPresentUrl))

-----------------------------------------------------------------------------
\* Recency filter

\* a datetime: wall-clock reading in ticks, and its tzinfo (naive, or an offset
\* from UTC in ticks); None is NoDate
NoDate == [kind |-> "None"]

Aware(wall, off) == [kind |-> "datetime", wall |-> wall, naive |-> FALSE, off |-> off]

Naive(wall) == [kind |-> "datetime", wall |-> wall, naive |-> TRUE, off |-> 0]

\* published.replace(tzinfo=timezone.utc)
replace_tzinfo_utc(d) == [d EXCEPT !.naive = FALSE, !.off = 0]

\* the instant an aware datetime denotes (what comparison and subtraction use)
Instant(d) == d.wall - d.off

\* timedelta(days=n) in ticks
Days(n) == n * TicksPerDay

\* a record is kept only when published strictly after the cutoff
RECURSIVE RecencyFrom_strictly_after(_, _, _, _)
RecencyFrom_strictly_after(records, i, cutoff, filtered0) ==
    Let(filtered0, LAMBDA filtered :
        IF i > Len(records) THEN filtered
        ELSE Let(Get(records[i], "published", NoDate), LAMBDA published :
                 IF published = NoDate
                 THEN RecencyFrom_strictly_after(records, i + 1, cutoff,
                                                 Append(filtered, records[i]))
                 ELSE Let(IF published.naive THEN replace_tzinfo_utc(published)
                          ELSE published, LAMBDA aware :
                          IF Instant(aware) > cutoff
                          THEN RecencyFrom_strictly_after(records, i + 1, cutoff,
                                                          Append(filtered, records[i]))
                          ELSE RecencyFrom_strictly_after(records, i + 1, cutoff, filtered))))

\* the loop of apply_recency_window from record i on
RECURSIVE RecencyFrom(_, _, _, _)
RecencyFrom(records, i, cutoff, filtered0) ==
    Let(filtered0, LAMBDA filtered :
        IF i > Len(records) THEN filtered
        ELSE Let(Get(records[i], "published", NoDate), LAMBDA published :
                 IF published = NoDate
                 THEN RecencyFrom(records, i + 1, cutoff, Append(filtered, records[i]))
                 ELSE Let(IF published.naive THEN replace_tzinfo_utc(published)
                          ELSE published, LAMBDA aware :
                          IF Instant(aware) >= cutoff
                          THEN RecencyFrom(records, i + 1, cutoff, Append(filtered, records[i]))
                          ELSE RecencyFrom(records, i + 1, cutoff, filtered))))

\* apply_recency_window(records, days_back), called when the clock reads `clock`
apply_recency_window(records, days_back, clock) ==
    IF days_back <= 0 THEN records
    ELSE Let(records, LAMBDA rs : RecencyFrom(rs, 1, clock - Days(days_back), <<>>))

\* days_back arguments
DaysBackInputs == {-1, 0, 1, 2}

\* published values: none, aware UTC datetimes at the window edges of the
\* positive days_back values, one in the future, a naive one and one with a
\* UTC offset whose wall-clock reading lies inside the window while its instant
\* lies outside
PublishedInputs(clock) ==
    {NoDate}
    \cup {Aware(clock - age, 0) :
             age \in {-1, 0, Days(1), Days(1) + 1, Days(2), Days(2) + 1, Days(3)}}
    \cup {Naive(clock - Days(1) - 1)}
    \cup {Aware(clock - 1, Days(1))}

InitRecency ==
    /\ NoClient
    /\ now = 0
    /\ allowlist = {}
    /\ blocklist = {}
    /\ trusted_domains = parse_domain_list(RawTrustedDomains)
    /\ score_weights = DefaultWeights
    /\ fn = "idle"
    /\ args \in {[records |-> rs, days_back |-> d] :
                    rs \in SeqsUpTo({[published |-> p] : p \in PublishedInputs(0)}, MaxRecords),
                    d \in DaysBackInputs}
    /\ ret = <<>>

CallApplyRecencyWindow ==
    /\ fn = "idle"
    /\ fn' = "apply_recency_window"
    /\ ret' = apply_recency_window(args.records, args.days_back, now)
    /\ UNCHANGED <<Config, args>>

NextRecency == CallApplyRecencyWindow

SpecRecency == InitRecency /\ [][NextRecency]_vars

\* the instant of a timestamp, a naive one read as UTC
ReadAsUtc(d) == IF d.naive THEN d.wall ELSE d.wall - d.off

\* C5: for days_back > 0 a record is kept exactly when it has no timestamp or
\* its timestamp (a naive one read as UTC) is at or after now minus days_back
\* days, so a record published now is kept and one published days_back + 1 days
\* ago is dropped; for days_back <= 0 every record is returned; kept records
\* stay in input order.
RecencyWindowHolds ==
    fn = "apply_recency_window" =>
        LET X == args.records
            d == args.days_back
            InWindow(r) == r.published = NoDate
                           \/ ReadAsUtc(r.published) >= now - d * TicksPerDay
        IN  IF d <= 0 THEN ret = X
            ELSE /\ ret = Pick(X, {i \in DOMAIN X : InWindow(X[i])})
                 /\ \A i \in DOMAIN X :
                        (X[i].published # NoDate /\ ReadAsUtc(X[i].published) = now)
                        => \E a \in DOMAIN ret : ret[a] = X[i]
                 /\ \A i \in DOMAIN X :
                        (X[i].published # NoDate
                         /\ ReadAsUtc(X[i].published) = now - (d + 1) * TicksPerDay)
                        => \A a \in DOMAIN ret : ret[a] # X[i]

\* a call with days_back > 0 that kept an undated record and a record published
\* exactly days_back days ago, and dropped a record published just before that
RecencyWindowWitness ==
    /\ fn = "apply_recency_window"
    /\ args.days_back > 0
    /\ Len(ret) = 2
    /\ ret[1].published = NoDate
    /\ ret[2].published # NoDate
    /\ ReadAsUtc(ret[2].published) = now - args.days_back * TicksPerDay
    /\ \E i \in DOMAIN args.records :
           /\ args.records[i].published # NoDate
           /\ ReadAsUtc(args.records[i].published) = now - args.days_back * TicksPerDay - 1

-----------------------------------------------------------------------------
\* Scorer
\*
\* A score component c in [0, 1] is held as the integer c * Unit(max_days), and
\* a weight as an integer number of hundredths, so that a total score t is held
\* as t * 100 * Unit(max_days), exactly.

\* the integer standing for a component value of 1.0: a multiple of 1..6 (the
\* relevance denominators), of 100 (hundredths) and of the ticks in max_days
Unit(max_days) == 300 * max_days * TicksPerDay

Min2(a, b) == IF a <= b THEN a ELSE b

Max2(a, b) == IF a >= b THEN a ELSE b

\* a or b, for strings and None
Or(a, b) == IF a # <<>> THEN a ELSE b

\* the recency score stays 1.0 until the record is max_days old
_recency_score_no_decay(published, max_days, clock) ==
    IF published = NoDate THEN 12 * (Unit(max_days) \div 100)
    ELSE Let(Max2(0, clock - Instant(IF published.naive THEN replace_tzinfo_utc(published)
                                     ELSE published)), LAMBDA age :
             IF age >= Days(max_days) THEN 0 ELSE Unit(max_days))

\* _recency_score(published, max_days), called when the clock reads `clock`
_recency_score(published, max_days, clock) ==
    IF published = NoDate THEN 12 * (Unit(max_days) \div 100)
    ELSE Let(Max2(0, clock - Instant(IF published.naive THEN replace_tzinfo_utc(published)
                                     ELSE published)), LAMBDA age :
             IF age >= Days(max_days) THEN 0
             ELSE Max2(0, Unit(max_days) - age * (Unit(max_days) \div Days(max_days))))

\* min and max are swapped: every record gets at least full relevance
relevance_score_max(overlap, topic_tokens, max_days) ==
    Max2(Unit(max_days),
         overlap * (Unit(max_days) \div Max2(1, Min2(Cardinality(topic_tokens), 6))))

\* relevance_score = min(1.0, overlap / max(1, min(len(topic_tokens), 6)))
relevance_score(overlap, topic_tokens, max_days) ==
    Min2(Unit(max_days),
         overlap * (Unit(max_days) \div Max2(1, Min2(Cardinality(topic_tokens), 6))))

\* exact_phrase_boost, as it enters the total
exact_phrase_boost(title, topic_text, max_days) ==
    Let(lower(strip(topic_text)), LAMBDA topic_l :
        IF topic_l # <<>> /\ contains(lower(title), topic_l) THEN 8 * Unit(max_days) ELSE 0)

snippet_quality(snippet, max_days) ==
    Let(Len(strip(snippet)), LAMBDA snippet_len :
    Let(IF snippet_len >= 50 THEN Unit(max_days) \div 2 ELSE 0, LAMBDA quality_50 :
        IF snippet_len >= 100 THEN Unit(max_days) ELSE quality_50))

domain_quality(domain, trusted, max_days) ==
    (IF domain \in trusted THEN 35 ELSE 15) * (Unit(max_days) \div 100)

\* the penalty is subtracted for zero overlap in either mode
strict_penalty_always(total, strict, overlap, w, max_days) ==
    IF overlap = 0
    THEN total - w.strict_no_overlap_penalty * Unit(max_days)
    ELSE total

\* if strict_quality_mode and overlap == 0: total -= strict_no_overlap_penalty
strict_penalty(total, strict, overlap, w, max_days) ==
    IF strict /\ overlap = 0
    THEN total - w.strict_no_overlap_penalty * Unit(max_days)
    ELSE total

\* score_record(record, topic_tokens=, topic_text=, trusted_domains=,
\* recency_days=, strict_quality_mode=, **weights), called when the clock reads
\* `clock`; the result is the score times 100 * Unit(max(7, recency_days))
score_record(record, topic_tokens, topic_text, trusted, recency_days, strict, w, clock) ==
    Let(Get(record, "title", <<>>), LAMBDA title :
    Let(Or(Get(record, "snippet", <<>>), Get(record, "summary", <<>>)), LAMBDA snippet :
    Let(extract_domain(Or(Get(record, "source", <<>>), Get(record, "url", <<>>))), LAMBDA domain :
    Let(Cardinality(topic_tokens \cap tokenize(title \o <<" ">> \o snippet)), LAMBDA overlap :
    Let(Max2(7, recency_days), LAMBDA max_days :
        strict_penalty(
              relevance_score(overlap, topic_tokens, max_days) * w.relevance_weight
            + _recency_score(Get(record, "published", NoDate), max_days, clock)
                  * w.recency_weight
            + snippet_quality(snippet, max_days) * w.snippet_weight
            + domain_quality(domain, trusted, max_days) * w.domain_weight
            + exact_phrase_boost(title, topic_text, max_days),
            strict, overlap, w, max_days))))))

\* inputs of score_record
TopicInputs ==
    { <<"A", "b", " ", "c", "d">>,
      <<"a", "b", " ", "c", "d", " ", "e", "f", " ", "g", "h", " ", "i", "j", " ",
        "k", "l", " ", "m", "n">>,
      <<"!">> }

ScoreTitles ==
    { <<"a", "b", " ", "c", "d">>,
      <<"C", "d", " ", "a", "b", "!">>,
      <<"x", "a", "b", " ", "c", "d", "x">>,
      <<"a", "b">>,
      <<"q">>,
      <<"a", "b", " ", "c", "d", " ", "e", "f", " ", "g", "h", " ", "i", "j", " ",
        "k", "l", " ", "m", "n">> }

ScoreSnippets ==
    { <<>>,
      <<" ">> \o Fill(".", 49) \o <<" ">>,
      Fill(".", 50),
      Fill(".", 99),
      <<"c", "d">> \o Fill(".", 98) }

ScoreSources ==
    { [source |-> <<"W", "W", "W", ".", "x", ".", "c">>, url |-> UrlYb],
      [source |-> HostY, url |-> UrlXa],
      [source |-> <<>>, url |-> UrlXa] }

ScorePublished(clock) ==
    {NoDate, Naive(clock - Days(3) - 1)}
    \cup {Aware(clock - age, 0) : age \in {-1, 0, Days(7), Days(14)}}

ScoreRecords ==
    {[title |-> t, snippet |-> sn, source |-> so.source, url |-> so.url, published |-> p] :
        t \in ScoreTitles, sn \in ScoreSnippets, so \in ScoreSources, p \in ScorePublished(0)}

\* search_score_weight_* settings: the defaults, a small relevance weight with
\* everything else off, and a negative strict-mode penalty
WeightConfigs ==
    { DefaultWeights,
      [relevance_weight |-> 1, recency_weight |-> 0, snippet_weight |-> 0,
       domain_weight |-> 0, strict_no_overlap_penalty |-> 0],
      [relevance_weight |-> 60, recency_weight |-> 20, snippet_weight |-> 10,
       domain_weight |-> 10, strict_no_overlap_penalty |-> -100] }

RecencyDaysInputs == {0, 14}

InitScore ==
    /\ NoClient
    /\ now = 0
    /\ allowlist = {}
    /\ blocklist = {}
    /\ trusted_domains = parse_domain_list(RawTrustedDomains)
    /\ score_weights \in WeightConfigs
    /\ fn = "idle"
    /\ args \in {[record |-> r, topic_text |-> t, recency_days |-> d,
                  strict_quality_mode |-> m] :
                    r \in ScoreRecords, t \in TopicInputs, d \in RecencyDaysInputs,
                    m \in BOOLEAN}
    /\ ret = <<>>

CallScoreRecord ==
    /\ fn = "idle"
    /\ fn' = "score_record"
    /\ ret' = score_record(args.record, tokenize(args.topic_text), args.topic_text,
                           trusted_domains, args.recency_days, args.strict_quality_mode,
                           score_weights, now)
    /\ UNCHANGED <<Config, args>>

NextScore == CallScoreRecord

SpecScore == InitScore /\ [][NextScore]_vars

\* number of topic tokens that occur in the record's title and snippet
Overlap(record, topic_text) ==
    Cardinality(tokenize(topic_text) \cap tokenize(record.title \o <<" ">> \o record.snippet))

\* the title contains the trimmed, lowercased topic
HasPhrase(record, topic_text) == contains(lower(record.title), lower(strip(topic_text)))

\* the score of the call's topic, mode and configuration for another record
ScoreOf(record) ==
    score_record(record, tokenize(args.topic_text), args.topic_text, trusted_domains,
                 args.recency_days, args.strict_quality_mode, score_weights, now)

\* snippet length class: 0 below 50 characters, 1 for 50..99, 2 from 100 on
SnippetClass(snippet) ==
    IF Len(strip(snippet)) < 50 THEN 0 ELSE IF Len(strip(snippet)) < 100 THEN 1 ELSE 2

\* the records that differ from r in title and snippet text only, with a
\* snippet of the same length class: same source, url and date
SameButText(r) ==
    {[r EXCEPT !.title = t, !.snippet = sn] :
        t \in ScoreTitles,
        sn \in {x \in ScoreSnippets : SnippetClass(x) = SnippetClass(r.snippet)}}

\* C6 (as amended): of two records alike except in their text, one with full
\* and one with zero topical overlap (topic with at least one token), the
\* former scores strictly higher for every weight configuration with
\* relevance_weight > 0, provided that in strict mode relevance_weight plus the
\* no-overlap penalty is positive and that the zero-overlap title does not earn
\* an exact-phrase bonus the full-overlap title lacks.
ScoreOrderingAmended ==
    (/\ fn = "score_record"
     /\ score_weights.relevance_weight > 0
     /\ args.strict_quality_mode =>
            score_weights.relevance_weight + score_weights.strict_no_overlap_penalty > 0
     /\ tokenize(args.topic_text) # {}
     /\ Overlap(args.record, args.topic_text) = Cardinality(tokenize(args.topic_text)))
    => \A r2 \in SameButText(args.record) :
           (/\ Overlap(r2, args.topic_text) = 0
            /\ HasPhrase(r2, args.topic_text) => HasPhrase(args.record, args.topic_text))
           => ret > ScoreOf(r2)

\* a full-overlap record was scored in strict mode under a positive relevance
\* weight, and a zero-overlap record alike in everything but text exists
ScoreOrderingWitness ==
    /\ fn = "score_record"
    /\ score_weights.relevance_weight > 0
    /\ args.strict_quality_mode
    /\ score_weights.relevance_weight + score_weights.strict_no_overlap_penalty > 0
    /\ Cardinality(tokenize(args.topic_text)) > 1
    /\ Overlap(args.record, args.topic_text) = Cardinality(tokenize(args.topic_text))
    /\ ~HasPhrase(args.record, args.topic_text)
    /\ \E r2 \in SameButText(args.record) :
           Overlap(r2, args.topic_text) = 0 /\ ~HasPhrase(r2, args.topic_text)

\* C6 (as stated): the full-overlap record scores strictly higher for any weight
\* configuration with relevance_weight > 0, in either mode.
ScoreOrderingAnyWeights ==
    (/\ fn = "score_record"
     /\ score_weights.relevance_weight > 0
     /\ tokenize(args.topic_text) # {}
     /\ Overlap(args.record, args.topic_text) = Cardinality(tokenize(args.topic_text)))
    => \A r2 \in SameButText(args.record) :
           Overlap(r2, args.topic_text) = 0 => ret > ScoreOf(r2)

\* the score of the call's record, topic and configuration in non-strict mode
NonStrictScore ==
    score_record(args.record, tokenize(args.topic_text), args.topic_text, trusted_domains,
                 args.recency_days, FALSE, score_weights, now)

ClaimedScore(record, topic_text, recency_days, strict, w, clock) ==
    LET U == Unit(IF recency_days > 7 THEN recency_days ELSE 7)
        horizon == (IF recency_days > 7 THEN recency_days ELSE 7) * TicksPerDay
        n == Cardinality(tokenize(topic_text))
        overlap == Overlap(record, topic_text)
        denominator == IF n = 0 THEN 1 ELSE IF n > 6 THEN 6 ELSE n
        relevance == IF overlap >= denominator THEN U ELSE (overlap * U) \div denominator
        snippet == CASE SnippetClass(record.snippet) = 0 -> 0
                     [] SnippetClass(record.snippet) = 1 -> U \div 2
                     [] SnippetClass(record.snippet) = 2 -> U
        domain == IF extract_domain(IF record.source # <<>> THEN record.source
                                    ELSE record.url) \in trusted_domains
                  THEN (35 * U) \div 100 ELSE (15 * U) \div 100
        age == IF record.published = NoDate THEN 0
               ELSE IF clock - ReadAsUtc(record.published) < 0 THEN 0
               ELSE clock - ReadAsUtc(record.published)
        recency == IF record.published = NoDate THEN (12 * U) \div 100
                   ELSE IF age >= horizon THEN 0
                   ELSE ((horizon - age) * U) \div horizon
        bonus == IF HasPhrase(record, topic_text) THEN (8 * U) \div 100 ELSE 0
        penalty == IF strict /\ overlap = 0 THEN w.strict_no_overlap_penalty * U ELSE 0
    IN    relevance * w.relevance_weight + recency * w.recency_weight
        + snippet * w.snippet_weight + domain * w.domain_weight
        + bonus * 100 - penalty

-----------------------------------------------------------------------------
\* News search: NewsSearchService.search_recent_news.  A call reads the clock
\* several times within one request; the readings are taken as one instant.

\* the five quality settings, which no search call assigns
Quality == <<now, allowlist, blocklist, trusted_domains, score_weights>>

\* Python's None where a str is expected (no one-character string equals it)
NoneStr == <<"None">>

\* truth value of a str or None
Truthy(s) == s # <<>> /\ s # NoneStr

\* a or b, for a and b str or None
OrStr(a, b) == IF Truthy(a) THEN a ELSE b

\* an Optional[int]: None is <<>>, the integer n is <<n>>
NoneInt == <<>>

\* the dict article.get("source", {}) falls back to
EmptyDict == [kind |-> "dict"]

\* one article of the provider's JSON turned into the service's record;
\* raises: an AttributeError inside the per-article try.  publishedAt is None,
\* a number, or a string that datetime.fromisoformat parses to .value or
\* rejects; source is None or a dict.
parse_article(article) ==
    Let(Get(article, "publishedAt", NoDate), LAMBDA published_at :
    Let(Get(article, "description", <<>>), LAMBDA description :
    Let(Get(article, "source", EmptyDict), LAMBDA source :
        [raises |-> published_at.kind = "int" \/ source.kind = "None",
         record |->
            [title     |-> Get(article, "title", <<>>),
             summary   |-> IF Truthy(description) THEN description
                           ELSE Get(article, "content", <<>>),
             url       |-> Get(article, "url", <<>>),
             published |-> IF published_at.kind = "str" /\ published_at.parses
                           THEN published_at.value ELSE NoDate,
             source    |-> Get(source, "name", <<>>)]])))

\* the loop over response["articles"]: an article that raises is skipped
parse_articles(articles) ==
    Let([i \in DOMAIN articles |-> parse_article(articles[i])], LAMBDA parsed :
        Pick([i \in DOMAIN articles |-> parsed[i].record],
             {i \in DOMAIN articles : ~parsed[i].raises}))

\* the domain policy is not consulted
filter_article_domain_unchecked(article, topic_tokens, strict_quality_mode) ==
    Let(strip(OrStr(article.title, <<>>)), LAMBDA title :
    Let(strip(OrStr(article.url, <<>>)), LAMBDA url :
        IF title = <<>> \/ url = <<>>
        THEN [raises |-> FALSE, keep |-> FALSE, article |-> article]
        ELSE IF extract_domain_raises(url)
        THEN [raises |-> TRUE, keep |-> FALSE, article |-> article]
        ELSE Let(strip(OrStr(article.summary, <<>>)), LAMBDA summary :
             [raises |-> FALSE,
              keep |-> strict_quality_mode =>
                           ~(\/ Len(summary) < 90
                             \/ topic_tokens \cap tokenize(title \o <<" ">> \o summary) = {}),
              article |-> article @@ ("_domain" :> extract_domain(url))])))

\* the strict gate looks at the summary length only
filter_article_gate_length_only(article, topic_tokens, strict_quality_mode) ==
    Let(strip(OrStr(article.title, <<>>)), LAMBDA title :
    Let(strip(OrStr(article.url, <<>>)), LAMBDA url :
        IF title = <<>> \/ url = <<>>
        THEN [raises |-> FALSE, keep |-> FALSE, article |-> article]
        ELSE IF extract_domain_raises(url)
        THEN [raises |-> TRUE, keep |-> FALSE, article |-> article]
        ELSE Let(extract_domain(url), LAMBDA domain :
             IF ~domain_allowed(domain, allowlist, blocklist)
             THEN [raises |-> FALSE, keep |-> FALSE, article |-> article]
             ELSE Let(strip(OrStr(article.summary, <<>>)), LAMBDA summary :
                  [raises |-> FALSE,
                   keep |-> strict_quality_mode => ~(Len(summary) < 90),
                   article |-> article @@ ("_domain" :> domain)]))))

\* one round of the filter loop of _rank_and_filter_articles: whether the
\* round raises (urlparse's ValueError), whether the article is appended, and
\* the article as the round leaves it
filter_article(article, topic_tokens, strict_quality_mode) ==
    Let(strip(OrStr(article.title, <<>>)), LAMBDA title :
    Let(strip(OrStr(article.url, <<>>)), LAMBDA url :
        IF title = <<>> \/ url = <<>>
        THEN [raises |-> FALSE, keep |-> FALSE, article |-> article]
        ELSE IF extract_domain_raises(url)
        THEN [raises |-> TRUE, keep |-> FALSE, article |-> article]
        ELSE Let(extract_domain(url), LAMBDA domain :
             IF ~domain_allowed(domain, allowlist, blocklist)
             THEN [raises |-> FALSE, keep |-> FALSE, article |-> article]
             ELSE Let(strip(OrStr(article.summary, <<>>)), LAMBDA summary :
                  [raises |-> FALSE,
                   keep |-> strict_quality_mode =>
                                ~(\/ Len(summary) < 90
                                  \/ topic_tokens \cap tokenize(title \o <<" ">> \o summary) = {}),
                   article |-> article @@ ("_domain" :> domain)]))))

\* the scoring loop's score of one item; it raises (AttributeError on
\* snippet.strip()) when the item's summary is None
score_item_raises(item) == Get(item, "summary", <<>>) = NoneStr

score_item(item, topic, days_back, strict_quality_mode) ==
    Let(OrStr(Get(item, "_domain", <<>>), extract_domain(Get(item, "url", <<>>))),
        LAMBDA domain :
        item @@ ("_quality_score" :>
            score_record([item EXCEPT !.source = domain], tokenize(topic), topic,
                         trusted_domains, Max2(7, days_back), strict_quality_mode,
                         score_weights, now)))

\* the sort key (r["_quality_score"], bool(r.get("published"))) of a precedes b's
KeyLess(a, b) ==
    \/ a["_quality_score"] < b["_quality_score"]
    \/ /\ a["_quality_score"] = b["_quality_score"]
       /\ Get(a, "published", NoDate) = NoDate
       /\ Get(b, "published", NoDate) # NoDate

\* ties come out in reverse input order, as from sorted(...)[::-1]
RECURSIVE SortedFrom_reverses_ties(_, _, _)
SortedFrom_reverses_ties(items, i, out0) ==
    Let(out0, LAMBDA out :
        IF i > Len(items) THEN out
        ELSE Let(Cardinality({j \in DOMAIN out : KeyLess(items[i], out[j])}), LAMBDA k :
                 SortedFrom_reverses_ties(items, i + 1,
                     Slice(out, 1, k) \o <<items[i]>> \o Slice(out, k + 1, Len(out)))))

\* sorted(items, key=..., reverse=True): descending and stable, so each item
\* goes behind the items placed so far whose key is not less than its own
RECURSIVE SortedFrom(_, _, _)
SortedFrom(items, i, out0) ==
    Let(out0, LAMBDA out :
        IF i > Len(items) THEN out
        ELSE Let(Cardinality({j \in DOMAIN out : ~KeyLess(out[j], items[i])}), LAMBDA k :
                 SortedFrom(items, i + 1,
                     Slice(out, 1, k) \o <<items[i]>> \o Slice(out, k + 1, Len(out)))))

\* seq[:k] for an integer k of either sign
Prefix(seq, k) ==
    IF k >= 0 THEN Slice(seq, 1, Min2(k, Len(seq))) ELSE Slice(seq, 1, Len(seq) + k)

\* only the score is removed
pop_transient_score_only(item) ==
    [key \in DOMAIN item \ {"_quality_score"} |-> item[key]]

\* item.pop("_quality_score", None); item.pop("_domain", None)
pop_transient(item) ==
    [key \in DOMAIN item \ {"_quality_score", "_domain"} |-> item[key]]

\* _rank_and_filter_articles up to and including the recency window: the
\* records that reach the scoring loop
rank_recent(topic, articles, days_back, strict_quality_mode) ==
    Let([i \in DOMAIN articles |->
            filter_article(articles[i], tokenize(topic), strict_quality_mode)],
        LAMBDA rounds :
    Let(Pick([i \in DOMAIN articles |-> rounds[i].article],
             {i \in DOMAIN articles : rounds[i].keep}), LAMBDA filtered :
        [raises |-> \/ \E i \in DOMAIN articles : rounds[i].raises
                    \/ \E i \in DOMAIN filtered :
                           normalize_url_raises(Get(filtered[i], "url", <<>>)),
         recent |-> IF \E i \in DOMAIN articles : rounds[i].raises THEN <<>>
                    ELSE IF \E i \in DOMAIN filtered :
                                normalize_url_raises(Get(filtered[i], "url", <<>>))
                    THEN <<>>
                    ELSE IF days_back > 0
                    THEN apply_recency_window(dedupe_records(filtered),
                                              Max2(1, days_back), now)
                    ELSE dedupe_records(filtered)]))

\* the records of _rank_and_filter_articles after the sort, scores attached
rank_sorted(topic, recent, days_back, strict_quality_mode) ==
    SortedFrom([i \in DOMAIN recent |->
                   score_item(recent[i], topic, days_back, strict_quality_mode)],
               1, <<>>)

\* _rank_and_filter_articles: whether it raises, and what it returns
_rank_and_filter_articles(topic, articles, max_results, days_back, strict_quality_mode) ==
    Let(rank_recent(topic, articles, days_back, strict_quality_mode), LAMBDA r :
        IF r.raises \/ \E i \in DOMAIN r.recent : score_item_raises(r.recent[i])
        THEN [raises |-> TRUE, final_articles |-> <<>>]
        ELSE Let(Prefix(rank_sorted(topic, r.recent, days_back, strict_quality_mode),
                        max_results), LAMBDA final_articles :
                 [raises |-> FALSE,
                  final_articles |->
                      [i \in DOMAIN final_articles |-> pop_transient(final_articles[i])]]))

\* str.split(): the maximal runs of non-whitespace characters, in order
RECURSIVE split_whitespace(_)
split_whitespace(s0) ==
    Let(lstrip(s0, Whitespace), LAMBDA s :
        IF s = <<>> THEN <<>>
        ELSE Let(FindAny(s, Whitespace, 1), LAMBDA i :
                 IF i = 0 THEN <<s>>
                 ELSE <<Slice(s, 1, i - 1)>> \o split_whitespace(Slice(s, i + 1, Len(s)))))

\* sep.join(words)
RECURSIVE join(_, _)
join(sep, words0) ==
    Let(words0, LAMBDA words :
        IF words = <<>> THEN <<>>
        ELSE IF Len(words) = 1 THEN words[1]
        ELSE words[1] \o sep \o join(sep, Tail(words)))

\* NewsSearchService._build_news_query
_build_news_query(topic, strict_quality_mode) ==
    Let(join(<<" ">>, split_whitespace(topic)), LAMBDA cleaned :
        IF cleaned = <<>> THEN topic
        ELSE IF strict_quality_mode /\ contains(cleaned, <<" ">>)
        THEN <<"\"">> \o cleaned \o
             <<"\"", " ", "A", "N", "D", " ", "(", "l", "a", "t", "e", "s", "t", " ",
               "O", "R", " ", "u", "p", "d", "a", "t", "e", " ", "O", "R", " ",
               "r", "e", "p", "o", "r", "t", ")">>
        ELSE cleaned \o <<" ", "l", "a", "t", "e", "s", "t">>)

\* the request_params of _fetch_news_api_articles; from_param is the calendar
\* day of now - max(1, days_back) days, present when days_back > 0
request_params(topic, max_results, days_back, strict_quality_mode) ==
    Let([q |-> _build_news_query(topic, strict_quality_mode),
         language |-> "en",
         sort_by |-> "publishedAt",
         page_size |-> Min2(max_results * (IF strict_quality_mode THEN 3 ELSE 2), 100)],
        LAMBDA params :
        IF days_back > 0
        THEN params @@ ("from_param" :> ((now - Days(Max2(1, days_back))) \div TicksPerDay))
        ELSE params)

\* the response's status is not looked at
_fetch_news_api_articles_any_status(topic, max_results, days_back, strict_quality_mode) ==
    IF max_results = NoneInt THEN [ret |-> <<>>, calls |-> <<>>]
    ELSE Let(<<request_params(topic, max_results[1], days_back, strict_quality_mode)>>,
             LAMBDA calls :
             IF response.kind = "raises" THEN [ret |-> <<>>, calls |-> calls]
             ELSE Let(parse_articles(response.articles), LAMBDA articles :
                  Let(_rank_and_filter_articles(topic, articles, max_results[1], days_back,
                                                strict_quality_mode), LAMBDA ranked :
                      [ret |-> IF ranked.raises THEN <<>> ELSE ranked.final_articles,
                       calls |-> calls])))

\* NewsSearchService._fetch_news_api_articles: what it returns and the calls
\* it makes to the provider.  max_results = None raises (TypeError) before the
\* call; every exception ends in the empty list.
_fetch_news_api_articles(topic, max_results, days_back, strict_quality_mode) ==
    IF max_results = NoneInt THEN [ret |-> <<>>, calls |-> <<>>]
    ELSE Let(<<request_params(topic, max_results[1], days_back, strict_quality_mode)>>,
             LAMBDA calls :
             IF response.kind = "raises" THEN [ret |-> <<>>, calls |-> calls]
             ELSE IF response.status # "ok" THEN [ret |-> <<>>, calls |-> calls]
             ELSE Let(parse_articles(response.articles), LAMBDA articles :
                  Let(_rank_and_filter_articles(topic, articles, max_results[1], days_back,
                                                strict_quality_mode), LAMBDA ranked :
                      [ret |-> IF ranked.raises THEN <<>> ELSE ranked.final_articles,
                       calls |-> calls])))

\* NewsSearchService.__init__: the client exists when the API key is truthy
NewsApiClient(key) == IF Truthy(key) THEN "client" ELSE "None"

\* NewsSearchService.default_days, from settings.search_news_days_default
default_days == 14

\* NewsSearchService.search_recent_news
search_recent_news(topic, max_results, days_back, strict_quality_mode) ==
    IF newsapi_client = "None" THEN [ret |-> <<>>, calls |-> <<>>]
    ELSE _fetch_news_api_articles(topic, max_results,
                                  IF days_back # NoneInt THEN days_back[1] ELSE default_days,
                                  strict_quality_mode)

\* a description of 90 characters that shares the token "cd" with the topic
LongSummary == <<"c", "d">> \o Fill(".", 88)

\* a publishedAt string that fromisoformat parses to the datetime value
IsoString(value) == [kind |-> "str", parses |-> TRUE, value |-> value]

\* an article of the provider's JSON: on-topic, dated now, from host y.c
Article(path) ==
    [title       |-> <<"a", "b", " ", "c", "d">>,
     description |-> LongSummary,
     content     |-> NoneStr,
     url         |-> Scheme \o HostY \o <<"/">> \o path,
     publishedAt |-> IsoString(Aware(now, 0)),
     source      |-> [kind |-> "dict", name |-> <<"Y">>]]

\* SEARCH_DOMAIN_BLOCKLIST of the news service, and a host it blocks
RawBlocklist == <<" ", "W", "W", "W", ".", "B", ".", "c">>

HostB == <<"b", ".", "c">>

\* articles that pass the non-strict filter: one from the trusted host and
\* one with the same url written differently, undated and with its text in
\* content; two alike but for the url; one alike with a date that does not
\* parse; one three days old; one off topic
CoreArticles ==
    << [Article(<<"a">>) EXCEPT !.title = <<"A", "b", " ", "c", "d">>, !.url = UrlXa],
       [Article(<<"a">>) EXCEPT !.title = <<"C", "d", " ", "a", "b", "!">>,
                                !.url = UrlXaVariant, !.description = <<>>,
                                !.content = LongSummary, !.publishedAt = NoDate],
       Article(<<"b">>),
       Article(<<"c">>),
       [Article(<<"d">>) EXCEPT !.publishedAt = [kind |-> "str", parses |-> FALSE]],
       [Article(<<"g">>) EXCEPT !.publishedAt = IsoString(Aware(now - Days(3), 0))],
       [Article(<<"q">>) EXCEPT !.title = <<"q">>, !.description = Fill(".", 90)] >>

\* articles with something wrong or filtered out: a null source; neither
\* description nor content; no title key; a blocklisted host; a summary of 89
\* characters once trimmed, under the url of the first core article; a blank url
ExtraArticles ==
    { [Article(<<"z">>) EXCEPT !.source = [kind |-> "None"]],
      [Article(<<"h">>) EXCEPT !.description = NoneStr],
      [key \in DOMAIN Article(<<"t">>) \ {"title"} |-> Article(<<"t">>)[key]],
      [Article(<<"k">>) EXCEPT !.url = Scheme \o WwwDot \o HostB \o <<"/", "k">>],
      [Article(<<"a">>) EXCEPT !.url = Scheme \o HostX \o <<"/", "a">>,
                               !.description = <<" ", "c", "d">> \o Fill(".", 87) \o <<" ">>],
      [Article(<<"u">>) EXCEPT !.url = <<" ">>] }

ArticleInputs == Range(CoreArticles) \cup ExtraArticles

\* seq back to front
Reverse(seq) == [i \in DOMAIN seq |-> seq[Len(seq) + 1 - i]]

\* at most n core articles, in the order of CoreArticles or in the reverse order
CoreRuns(n) ==
    UNION {{Pick(CoreArticles, idx), Reverse(Pick(CoreArticles, idx))} :
            idx \in {x \in SUBSET DOMAIN CoreArticles : Cardinality(x) <= n}}

\* the article lists of a response: at most n articles, a run of core
\* articles with at most one of the extra articles anywhere in it
ArticleLists(n) ==
    CoreRuns(n)
    \cup UNION {{Slice(run, 1, i) \o <<extra>> \o Slice(run, i + 1, Len(run)) :
                    i \in 0..Len(run), extra \in ExtraArticles} :
                 run \in CoreRuns(n - 1)}

\* what get_everything does when called: it raises, or answers with a status
\* and up to MaxRecords articles
ResponseInputs ==
    { [kind |-> "raises"],
      [kind |-> "response", status |-> "error", articles |-> <<>>],
      [kind |-> "response", status |-> "error", articles |-> <<Article(<<"b">>)>>] }
    \cup {[kind |-> "response", status |-> "ok", articles |-> as] :
            as \in ArticleLists(MaxRecords)}

\* (max_results, days_back, strict_quality_mode) arguments:
\* HotTakeRequest.max_articles is an unvalidated Optional[int], news_days is
\* None or within 1..90, and other callers may pass days_back = 0
CallInputs ==
    { <<(<<2>>), NoneInt, FALSE>>, <<(<<2>>), NoneInt, TRUE>>,
      <<(<<2>>), (<<0>>), FALSE>>,
      <<(<<2>>), (<<2>>), FALSE>>, <<(<<2>>), (<<2>>), TRUE>>,
      <<(<<0>>), (<<2>>), FALSE>>,
      <<(<<-1>>), (<<2>>), FALSE>>,
      <<NoneInt, (<<2>>), FALSE>> }

\* score weights the service may be configured with
NewsWeightConfigs == {DefaultWeights, [DefaultWeights EXCEPT !.recency_weight = 0]}

InitNews ==
    /\ now = 0
    /\ allowlist = {}
    /\ blocklist = parse_domain_list(RawBlocklist)
    /\ trusted_domains = parse_domain_list(RawTrustedDomains)
    /\ score_weights \in NewsWeightConfigs
    /\ api_key \in {[newsapi |-> k, brave |-> NoneStr, serper |-> NoneStr] :
                       k \in {NoneStr, <<"k">>}}
    /\ newsapi_client = NewsApiClient(api_key.newsapi)
    /\ http = <<>>
    /\ NoHotTake
    /\ response \in IF newsapi_client = "None"
                    THEN {[kind |-> "raises"],
                          [kind |-> "response", status |-> "ok",
                           articles |-> <<Article(<<"b">>)>>]}
                    ELSE ResponseInputs
    /\ requests = <<>>
    /\ fn = "idle"
    /\ args \in {[topic |-> <<"A", "b", " ", "c", "d">>, max_results |-> c[1],
                  days_back |-> c[2], strict_quality_mode |-> c[3]] :
                    c \in CallInputs}
    /\ score_weights # DefaultWeights =>
           /\ args.max_results = <<2>>
           /\ args.days_back # <<0>>
           /\ ~args.strict_quality_mode
    /\ ret = <<>>

CallSearchRecentNews ==
    /\ fn = "idle"
    /\ fn' = "search_recent_news"
    /\ \E result \in {search_recent_news(args.topic, args.max_results, args.days_back,
                                          args.strict_quality_mode)} :
           /\ ret' = result.ret
           /\ requests' = requests \o result.calls
    /\ UNCHANGED <<Quality, newsapi_client, response, api_key, http, HotTake, args>>

NextNews == CallSearchRecentNews

SpecNews == InitNews /\ [][NextNews]_vars

\* the days_back the call's pipeline runs with
EffectiveDays == IF args.days_back # NoneInt THEN args.days_back[1] ELSE default_days

\* the call asked the provider and got an "ok" response
GotResponse ==
    /\ fn = "search_recent_news"
    /\ newsapi_client = "client"
    /\ args.max_results # NoneInt
    /\ response.kind = "response"
    /\ response.status = "ok"

\* the records of the call that passed filter, deduplication and recency
\* window, in that order, and whether a step up to there raised
Survivors ==
    rank_recent(args.topic, parse_articles(response.articles), EffectiveDays,
                args.strict_quality_mode)

\* the survivors with their scores
Scored(recent) ==
    [i \in DOMAIN recent |->
        score_item(recent[i], args.topic, EffectiveDays, args.strict_quality_mode)]

\* r is the returned form of the scored record s
SameRecord(r, s) ==
    \A f \in {"title", "summary", "url", "published", "source"} : r[f] = s[f]

\* S[p] is ranked before S[q]: higher score; at equal scores dated before
\* undated; at equal score and datedness the one earlier in S
RankedBefore(S, p, q) ==
    \/ S[p]["_quality_score"] > S[q]["_quality_score"]
    \/ /\ S[p]["_quality_score"] = S[q]["_quality_score"]
       /\ \/ S[p].published # NoDate /\ S[q].published = NoDate
          \/ (S[p].published = NoDate) = (S[q].published = NoDate) /\ p < q

\* result is the first k records of S in ranking order
IsTopOf(result, S, k) ==
    /\ Len(result) = IF k < Len(S) THEN k ELSE Len(S)
    /\ \A i \in DOMAIN result : \E p \in DOMAIN S :
           /\ SameRecord(result[i], S[p])
           /\ \A j \in DOMAIN result :
                  j > i => \E q \in DOMAIN S :
                               SameRecord(result[j], S[q]) /\ RankedBefore(S, p, q)
           /\ \A q \in DOMAIN S :
                  (\A j \in DOMAIN result : ~SameRecord(result[j], S[q]))
                      => RankedBefore(S, p, q)

NoTransientFields ==
    fn = "search_recent_news" =>
        \A i \in DOMAIN ret :
            "_quality_score" \notin DOMAIN ret[i] /\ "_domain" \notin DOMAIN ret[i]

\* a strict-mode call returned records, each with exactly the five fields of
\* the parsed article
NoTransientFieldsWitness ==
    /\ fn = "search_recent_news"
    /\ args.strict_quality_mode
    /\ Len(ret) = 2
    /\ \A i \in DOMAIN ret :
           DOMAIN ret[i] = {"title", "summary", "url", "published", "source"}

\* the record has a non-blank title and url, and its url's domain passes
\* the service's allowlist and blocklist
PassesBaseFilter(record) ==
    /\ Truthy(record.title) /\ strip(record.title) # <<>>
    /\ Truthy(record.url) /\ strip(record.url) # <<>>
    /\ domain_allowed(extract_domain(strip(record.url)), allowlist, blocklist)

\* C11: every record that reaches the scorer, and every record returned, has
\* a non-empty trimmed title, a non-empty trimmed url and a url domain that
\* domain_allowed accepts under the configured lists.
ScoredRecordsPassFilter ==
    /\ GotResponse =>
           Let(Survivors.recent, LAMBDA recent :
               \A i \in DOMAIN recent : PassesBaseFilter(recent[i]))
    /\ fn = "search_recent_news" => \A i \in DOMAIN ret : PassesBaseFilter(ret[i])

\* a response with an article that fails the base filter (no title, blank
\* url or blocklisted host) and one that is scored and returned
ScoredRecordsPassFilterWitness ==
    /\ GotResponse
    /\ ret # <<>>
    /\ Survivors.recent # <<>>
    /\ \E i \in DOMAIN response.articles :
           /\ Truthy(Get(response.articles[i], "title", <<>>))
           /\ extract_domain(strip(response.articles[i].url)) \in blocklist

\* the record's trimmed summary has at least 90 characters and its title and
\* summary share a token with the call's topic
PassesStrictGate(record) ==
    /\ Len(strip(OrStr(record.summary, <<>>))) >= 90
    /\ tokenize(args.topic)
         \cap tokenize(OrStr(record.title, <<>>) \o <<" ">> \o OrStr(record.summary, <<>>)) # {}

\* what the call returns for the list `articles` of parsed articles
ResultFor(articles) ==
    Let(_rank_and_filter_articles(args.topic, articles, args.max_results[1],
                                  EffectiveDays, args.strict_quality_mode), LAMBDA ranked :
        IF ranked.raises THEN <<>> ELSE ranked.final_articles)

\* C12: in strict mode no returned record has a trimmed summary shorter than
\* 90 characters or zero token overlap with the topic, and the result is the
\* one the call gives for the response without the records that fail this
\* gate: they take no part in deduplication, scoring or ranking.
StrictGateDrops ==
    (fn = "search_recent_news" /\ args.strict_quality_mode) =>
        /\ \A i \in DOMAIN ret : PassesStrictGate(ret[i])
        /\ GotResponse =>
               Let(parse_articles(response.articles), LAMBDA articles :
                   ret = ResultFor(SelectSeq(articles, PassesStrictGate)))

\* a strict call whose response has a record failing the gate ahead of a
\* record with the same dedup key that passes it and is returned
StrictGateDropsWitness ==
    /\ GotResponse
    /\ args.strict_quality_mode
    /\ Let(parse_articles(response.articles), LAMBDA articles :
           \E i, j \in DOMAIN articles :
               /\ i < j
               /\ ~PassesStrictGate(articles[i])
               /\ PassesStrictGate(articles[j])
               /\ DedupKey(articles[i]) = DedupKey(articles[j])
               /\ \E k \in DOMAIN ret : ret[k].url = articles[j].url)

\* the call reached the provider, whose get_everything raised or answered
\* with a status other than "ok"
ProviderFailed ==
    /\ fn = "search_recent_news"
    /\ requests # <<>>
    /\ response.kind = "raises" \/ response.status # "ok"

\* C13: search_recent_news returns the empty list whenever the provider call
\* raised or answered with a status other than "ok", and whenever a step of
\* the pipeline raised: both functions end in `except Exception: return []`,
\* so no exception reaches the caller.
ProviderFailureGivesEmpty ==
    /\ ProviderFailed => ret = <<>>
    /\ (GotResponse /\ Survivors.raises) => ret = <<>>

\* the provider answered the call with a non-"ok" status and articles
ProviderFailureGivesEmptyWitness ==
    /\ ProviderFailed
    /\ response.kind = "response"
    /\ response.articles # <<>>
    /\ args.max_results = <<2>>
    /\ ret = <<>>

\* an article of the provider's JSON with every field present and of the
\* expected type: title and url strings, a description or content string, a
\* publishedAt string that parses, a source dict
WellFormed(article) ==
    /\ {"title", "url", "publishedAt", "source"} \subseteq DOMAIN article
    /\ article.title # NoneStr
    /\ article.url # NoneStr
    /\ Truthy(Get(article, "description", <<>>)) \/ Truthy(Get(article, "content", <<>>))
    /\ article.publishedAt.kind = "str" /\ article.publishedAt.parses
    /\ article.source.kind = "dict"

-----------------------------------------------------------------------------
\* Web-search adapters: BraveSearchProvider and SerperSearchProvider.  Both
\* guard the HTTP call with is_configured() and catch every exception of the
\* call and of the parsing.

\* the JSON value null where a dict is expected
NoneItem == [kind |-> "None"]

\* the key is compared with None only, so the empty string counts as a key
Brave_is_configured_not_none(key) == key # NoneStr

\* BraveSearchProvider.is_configured: bool(self.api_key)
Brave_is_configured(key) == Truthy(key)

\* SerperSearchProvider.is_configured: bool(self.api_key)
Serper_is_configured(key) == Truthy(key)

\* _extract_domain of both adapters: urlparse(url).netloc without a leading
\* "www.", and "" when urlparse raises
_extract_domain(url) ==
    Let(urlparse(url), LAMBDA parsed :
        IF parsed.raises THEN <<>>
        ELSE IF startswith(parsed.netloc, WwwDot)
        THEN Slice(parsed.netloc, 5, Len(parsed.netloc))
        ELSE parsed.netloc)

\* BraveSearchProvider._parse_results, from item i on: an item that is not a
\* dict raises inside the per-item try and is skipped
RECURSIVE Brave_parse_items(_, _)
Brave_parse_items(items, i) ==
    IF i > Len(items) THEN <<>>
    ELSE (IF items[i].kind # "dict" THEN <<>>
          ELSE <<[title     |-> Get(items[i], "title", <<>>),
                  url       |-> Get(items[i], "url", <<>>),
                  snippet   |-> Get(items[i], "description", <<>>),
                  published |-> NoDate,
                  source    |-> _extract_domain(Get(items[i], "url", <<>>))]>>)
         \o Brave_parse_items(items, i + 1)

\* BraveSearchProvider._parse_results: raises when data["web"] is not a dict
Brave_parse_results(data) ==
    Let(Get(data, "web", EmptyDict), LAMBDA web_results :
        IF web_results.kind # "dict" THEN [raises |-> TRUE, results |-> <<>>]
        ELSE [raises |-> FALSE,
              results |-> Brave_parse_items(Get(web_results, "results", <<>>), 1)])

\* SerperSearchProvider._parse_results, from item i on
RECURSIVE Serper_parse_items(_, _)
Serper_parse_items(items, i) ==
    IF i > Len(items) THEN <<>>
    ELSE (IF items[i].kind # "dict" THEN <<>>
          ELSE <<[title     |-> Get(items[i], "title", <<>>),
                  url       |-> Get(items[i], "link", <<>>),
                  snippet   |-> Get(items[i], "snippet", <<>>),
                  published |-> NoDate,
                  source    |-> _extract_domain(Get(items[i], "link", <<>>))]>>)
         \o Serper_parse_items(items, i + 1)

\* SerperSearchProvider._parse_results
Serper_parse_results(data) ==
    [raises |-> FALSE, results |-> Serper_parse_items(Get(data, "organic", <<>>), 1)]

\* what the adapter returns once the request `call` was sent: [] when the
\* request raised, the status was an error or the body could not be parsed
AfterCall(call, parse(_)) ==
    IF http.kind # "json" THEN [ret |-> <<>>, calls |-> <<call>>]
    ELSE Let(parse(http.data), LAMBDA parsed :
             [ret |-> IF parsed.raises THEN <<>> ELSE parsed.results, calls |-> <<call>>])

\* BraveSearchProvider.search: what it returns and the HTTP requests it sends.
\* max_results = None raises (TypeError in min) before the request.
Brave_search(query, max_results) ==
    IF ~Brave_is_configured(api_key.brave) THEN [ret |-> <<>>, calls |-> <<>>]
    ELSE IF max_results = NoneInt THEN [ret |-> <<>>, calls |-> <<>>]
    ELSE AfterCall([provider |-> "brave", token |-> api_key.brave, q |-> query,
                    count |-> Min2(max_results[1], 20)], Brave_parse_results)

\* SerperSearchProvider.search
Serper_search(query, max_results) ==
    IF ~Serper_is_configured(api_key.serper) THEN [ret |-> <<>>, calls |-> <<>>]
    ELSE IF max_results = NoneInt THEN [ret |-> <<>>, calls |-> <<>>]
    ELSE AfterCall([provider |-> "serper", token |-> api_key.serper, q |-> query,
                    num |-> Min2(max_results[1], 10)], Serper_parse_results)

\* the values an API key setting takes: unset, empty, set
KeyInputs == {NoneStr, <<>>, <<"k">>}

\* items of a web-search answer: a full one, one without any field, a null
\* and one whose URL urlparse rejects
WebItems ==
    {[kind |-> "dict", title |-> <<"a", "b">>,
      url |-> Scheme \o WwwDot \o HostX \o <<"/", "a">>,
      link |-> Scheme \o WwwDot \o HostX \o <<"/", "a">>,
      description |-> <<"d">>, snippet |-> <<"s">>,
      age |-> <<"2", "d">>, date |-> <<"2", "d">>],
     [kind |-> "dict"],
     NoneItem,
     [kind |-> "dict", title |-> <<"c">>, url |-> Scheme \o <<"[">>,
      link |-> Scheme \o <<"[">>]}

\* what the endpoint answers: the request raises, an HTTP error status, a
\* body that is not JSON, or JSON data
HttpInputs ==
    {[kind |-> "raises"], [kind |-> "status", code |-> 500], [kind |-> "not_json"],
     [kind |-> "json", data |-> [kind |-> "dict"]],
     [kind |-> "json", data |-> [kind |-> "dict", web |-> NoneItem]]}
    \cup {[kind |-> "json",
           data |-> [kind |-> "dict", web |-> [kind |-> "dict", results |-> items],
                     organic |-> items]] : items \in SeqsUpTo(WebItems, MaxRecords - 1)}

InitProviders ==
    /\ now = 0
    /\ allowlist = {}
    /\ blocklist = parse_domain_list(RawBlocklist)
    /\ trusted_domains = parse_domain_list(RawTrustedDomains)
    /\ score_weights = DefaultWeights
    /\ api_key \in [newsapi : KeyInputs, brave : KeyInputs, serper : KeyInputs]
    /\ newsapi_client = NewsApiClient(api_key.newsapi)
    /\ response \in {[kind |-> "raises"],
                     [kind |-> "response", status |-> "ok", articles |-> <<Article(<<"b">>)>>]}
    /\ http \in HttpInputs
    /\ NoHotTake
    /\ requests = <<>>
    /\ fn = "idle"
    /\ args \in {[topic |-> <<"A", "b", " ", "c", "d">>, max_results |-> k,
                  days_back |-> NoneInt, strict_quality_mode |-> FALSE] :
                     k \in {<<2>>, <<25>>, NoneInt}}
    /\ ret = <<>>

CallBraveSearch ==
    /\ fn = "idle"
    /\ fn' = "Brave_search"
    /\ \E result \in {Brave_search(args.topic, args.max_results)} :
           /\ ret' = result.ret
           /\ requests' = requests \o result.calls
    /\ UNCHANGED <<Quality, newsapi_client, response, api_key, http, HotTake, args>>

CallSerperSearch ==
    /\ fn = "idle"
    /\ fn' = "Serper_search"
    /\ \E result \in {Serper_search(args.topic, args.max_results)} :
           /\ ret' = result.ret
           /\ requests' = requests \o result.calls
    /\ UNCHANGED <<Quality, newsapi_client, response, api_key, http, HotTake, args>>

NextProviders == CallSearchRecentNews \/ CallBraveSearch \/ CallSerperSearch

SpecProviders == InitProviders /\ [][NextProviders]_vars

\* the API key of the provider that the last call went to
KeyOfCall ==
    CASE fn = "search_recent_news" -> api_key.newsapi
      [] fn = "Brave_search" -> api_key.brave
      [] fn = "Serper_search" -> api_key.serper

\* C14: a search on a provider whose API key is not configured (None or the
\* empty string) returns the empty list and sends no request to the provider,
\* for the news orchestrator and the Brave and Serper adapters alike.
NoKeyNoCall ==
    (fn # "idle" /\ ~Truthy(KeyOfCall)) => (ret = <<>> /\ requests = <<>>)

\* a Brave search without a key, where the key of another provider is set and
\* the endpoint would have answered with results
NoKeyNoCallWitness ==
    /\ fn = "Brave_search"
    /\ api_key.brave = <<>>
    /\ api_key.serper = <<"k">>
    /\ args.max_results = <<2>>
    /\ http.kind = "json"
    /\ Brave_parse_results(http.data).results # <<>>
    /\ ret = <<>>
    /\ requests = <<>>

-----------------------------------------------------------------------------
\* NewsSearchService.format_news_context.  Ticks count from 1970-01-01T00:00
\* where a calendar date is printed.

NoResultsSentence ==
    <<"N", "o", " ", "r", "e", "c", "e", "n", "t", " ", "n", "e", "w", "s", " ", "f", "o", "u", "n", "d", " ", "o", "n", " ", "t", "h", "i", "s", " ", "t", "o", "p", "i", "c", ".">>

ContextHeader ==
    <<"R", "e", "c", "e", "n", "t", " ", "n", "e", "w", "s", " ", "a", "n", "d", " ", "h", "e", "a", "d", "l", "i", "n", "e", "s", ":">>

DigitChars == <<"0", "1", "2", "3", "4", "5", "6", "7", "8", "9">>

\* str(n) for n >= 0
RECURSIVE str(_)
str(n) == IF n < 10 THEN <<DigitChars[n + 1]>> ELSE str(n \div 10) \o <<DigitChars[(n % 10) + 1]>>

\* n printed with at least `width` digits, zero-padded (%Y, %m, %d)
Padded(n, width) == Let(str(n), LAMBDA digits : Fill("0", width - Len(digits)) \o digits)

\* the proleptic Gregorian <<year, month, day>> of the day `days` after 1970-01-01
civil_from_days(days) ==
    Let(days + 719468, LAMBDA z :
    Let(z \div 146097, LAMBDA era :
    Let(z - era * 146097, LAMBDA doe :
    Let((doe - doe \div 1460 + doe \div 36524 - doe \div 146096) \div 365, LAMBDA yoe :
    Let(doe - (365 * yoe + yoe \div 4 - yoe \div 100), LAMBDA doy :
    Let((5 * doy + 2) \div 153, LAMBDA mp :
    Let(IF mp < 10 THEN mp + 3 ELSE mp - 9, LAMBDA month :
        <<yoe + era * 400 + (IF month <= 2 THEN 1 ELSE 0),
          month,
          doy - (153 * mp + 2) \div 5 + 1>>)))))))

\* published.strftime("%Y-%m-%d"): the date of the wall-clock reading
strftime_ymd(published) ==
    Let(civil_from_days(published.wall \div TicksPerDay), LAMBDA ymd :
        Padded(ymd[1], 4) \o <<"-">> \o Padded(ymd[2], 2) \o <<"-">> \o Padded(ymd[3], 2))

\* f"{value}" for a str or None
fstr(value) == IF value = NoneStr THEN <<"N", "o", "n", "e">> ELSE value

\* the summary as format_news_context prints it
TruncatedSummary(summary) ==
    IF Len(summary) > 200 THEN Slice(summary, 1, 197) \o <<".", ".", ".">> ELSE summary

\* the summary is cut after 200 characters
article_text_cut_at_200(i, article) ==
    Let(Get(article, "summary", <<>>), LAMBDA summary0 :
    Let(IF Len(summary0) > 200 THEN Slice(summary0, 1, 200) \o <<".", ".", ".">>
        ELSE summary0, LAMBDA summary :
    Let(Get(article, "source", <<>>), LAMBDA source :
    Let(Get(article, "url", <<>>), LAMBDA url :
    Let(Get(article, "published", NoDate), LAMBDA published :
        <<"\n">> \o str(i) \o <<".", " ">> \o fstr(Get(article, "title", <<>>))
        \o (IF Truthy(source) THEN <<" ", "(">> \o source \o <<")">> ELSE <<>>)
        \o (IF published # NoDate THEN <<" ", "-", " ">> \o strftime_ymd(published) ELSE <<>>)
        \o (IF summary # <<>> THEN <<"\n", " ", " ", " ">> \o summary ELSE <<>>)
        \o (IF Truthy(url)
            THEN <<"\n", " ", " ", " ", "U", "R", "L", ":", " ">> \o url ELSE <<>>))))))

\* the body of the loop of format_news_context: the block of article number i.
\* The summary is a str: the search returns no record without one.
article_text(i, article) ==
    Let(TruncatedSummary(Get(article, "summary", <<>>)), LAMBDA summary :
    Let(Get(article, "source", <<>>), LAMBDA source :
    Let(Get(article, "url", <<>>), LAMBDA url :
    Let(Get(article, "published", NoDate), LAMBDA published :
        <<"\n">> \o str(i) \o <<".", " ">> \o fstr(Get(article, "title", <<>>))
        \o (IF Truthy(source) THEN <<" ", "(">> \o source \o <<")">> ELSE <<>>)
        \o (IF published # NoDate THEN <<" ", "-", " ">> \o strftime_ymd(published) ELSE <<>>)
        \o (IF summary # <<>> THEN <<"\n", " ", " ", " ">> \o summary ELSE <<>>)
        \o (IF Truthy(url)
            THEN <<"\n", " ", " ", " ", "U", "R", "L", ":", " ">> \o url ELSE <<>>)))))

\* NewsSearchService.format_news_context
format_news_context(articles) ==
    IF articles = <<>> THEN NoResultsSentence
    ELSE join(<<"\n">>,
              <<ContextHeader>> \o [i \in DOMAIN articles |-> article_text(i, articles[i])])

\* 2024-02-29, in days after 1970-01-01
LeapDay == 19782

\* a summary of n characters whose characters from the 198th on are not "s"
SummaryOf(n) == [i \in 1..n |-> IF i <= 197 THEN "s" ELSE IF i <= 200 THEN "t" ELSE "u"]

\* records handed to format_news_context: summaries of 201, 200, 199, 3 and 0
\* characters, with and without source, url and date
FormatRecords ==
    {[title |-> <<"a", "b">>, summary |-> SummaryOf(201), source |-> <<"Y">>,
      url |-> Scheme \o HostY \o <<"/", "a">>, published |-> Aware(Days(LeapDay), 0)],
     [title |-> <<"c", "d">>, summary |-> SummaryOf(200), source |-> <<>>,
      url |-> <<>>, published |-> NoDate],
     [title |-> <<"e">>, summary |-> <<>>, published |-> Naive(Days(LeapDay + 1) + 1)],
     [title |-> <<"f">>, summary |-> SummaryOf(199), source |-> NoneStr,
      url |-> Scheme \o HostY \o <<"/", "b">>, published |-> Aware(Days(LeapDay) - 1, 1)],
     [title |-> <<"g">>, summary |-> <<"c", "d", ".">>,
      url |-> Scheme \o HostX \o <<"/", "c">>, published |-> NoDate]}

InitFormat ==
    /\ NoClient
    /\ now = Days(LeapDay)
    /\ allowlist = {}
    /\ blocklist = {}
    /\ trusted_domains = parse_domain_list(RawTrustedDomains)
    /\ score_weights = DefaultWeights
    /\ fn = "idle"
    /\ args \in {[articles |-> articles] : articles \in SeqsUpTo(FormatRecords, MaxRecords)}
    /\ ret = <<>>

CallFormatNewsContext ==
    /\ fn = "idle"
    /\ fn' = "format_news_context"
    /\ ret' = format_news_context(args.articles)
    /\ UNCHANGED <<Config, args>>

NextFormat == CallFormatNewsContext

SpecFormat == InitFormat /\ [][NextFormat]_vars

\* what opens the block of record number i: a blank line, the number, the title
BlockHead(i) ==
    <<"\n", "\n">> \o str(i) \o <<".", " ">> \o args.articles[i].title

\* where the block of record number i starts in the text (0: nowhere)
BlockStart(i) == find(ret, BlockHead(i))

\* the block of record number i: from its start to the start of the next
BlockOf(i) ==
    Slice(ret, BlockStart(i),
          IF i = Len(args.articles) THEN Len(ret) ELSE BlockStart(i + 1) - 1)

\* the line of the block that carries the summary: what follows the first
\* "\n   " of the block, up to the next line feed
SummaryLine(block0) ==
    Let(block0, LAMBDA block :
    Let(find(block, <<"\n", " ", " ", " ">>), LAMBDA at :
        IF at = 0 THEN <<>>
        ELSE Before(Slice(block, at + 4, Len(block)), {"\n"})))

\* C16: format_news_context returns the no-results sentence for the empty
\* list; otherwise the text opens with the header and continues with one
\* numbered block per record in input order, each holding the record's title
\* and, when it has one, its url; a summary longer than 200 characters appears
\* as its first 197 characters plus "...", so that no printed summary exceeds
\* 200 characters, and a shorter one appears unchanged.
FormatContextHolds ==
    fn = "format_news_context" =>
        IF args.articles = <<>> THEN ret = NoResultsSentence
        ELSE /\ startswith(ret, ContextHeader)
             /\ BlockStart(1) = Len(ContextHeader) + 1
             /\ \A i \in DOMAIN args.articles :
                    /\ BlockStart(i) > 0
                    /\ i > 1 => BlockStart(i - 1) < BlockStart(i)
                    /\ Let(BlockOf(i), LAMBDA block :
                       Let(args.articles[i], LAMBDA record :
                           /\ Truthy(Get(record, "url", <<>>)) => contains(block, record.url)
                           /\ record.summary # <<>> =>
                                  /\ SummaryLine(block) =
                                         IF Len(record.summary) > 200
                                         THEN Slice(record.summary, 1, 197) \o <<".", ".", ".">>
                                         ELSE record.summary
                                  /\ Len(SummaryLine(block)) <= 200))

\* a text of at least two blocks, one with a summary of more than 200
\* characters and a url, one with a summary of exactly 200 and no url
FormatContextWitness ==
    /\ fn = "format_news_context"
    /\ Len(args.articles) >= 2
    /\ \E i, j \in DOMAIN args.articles :
           /\ Len(args.articles[i].summary) > 200
           /\ Truthy(Get(args.articles[i], "url", <<>>))
           /\ Len(args.articles[j].summary) = 200
           /\ ~Truthy(Get(args.articles[j], "url", <<>>))
           /\ contains(ret, args.articles[j].summary)

-----------------------------------------------------------------------------
\* HotTakeService: generate_hot_take and stream_hot_take, with the variant
\* cache (CacheService) and the LLM agents.  agent_type and agent names are
\* atomic strings; agent_type None is "None".

\* HotTakeService.agents: agent id -> agent.name
Agents == [openai |-> "OpenAI Agent", anthropic |-> "Claude Agent"]

\* the agents a request may be served by: the requested one, else random.choice
AgentChoices(agent_type) ==
    IF agent_type \notin {"None", ""} /\ agent_type \in DOMAIN Agents
    THEN {agent_type} ELSE DOMAIN Agents

\* "".join(tokens)
RECURSIVE concat(_)
concat(tokens) == IF tokens = <<>> THEN <<>> ELSE Head(tokens) \o concat(Tail(tokens))

ErrorGenerating ==
    <<"E", "r", "r", "o", "r", " ", "g", "e", "n", "e", "r", "a", "t", "i", "n", "g", " ", "h", "o", "t", " ", "t", "a", "k", "e", ":", " ", "E">>

\* agent.generate_hot_take: the OpenAI agent raises RuntimeError when the
\* completion fails, the Anthropic agent returns an error text instead
agent_generate_hot_take(agent) ==
    IF ~llm.raises THEN [raises |-> FALSE, text |-> strip(concat(llm.tokens))]
    ELSE IF agent = "anthropic" THEN [raises |-> FALSE, text |-> ErrorGenerating]
    ELSE [raises |-> TRUE, text |-> <<>>]

\* None where get_random_variant returns no variant
NoneVariant == [kind |-> "None"]

\* the characters of an agent_type
AgentTypeText ==
    [openai |-> <<"o", "p", "e", "n", "a", "i">>,
     anthropic |-> <<"a", "n", "t", "h", "r", "o", "p", "i", "c">>]

\* the prefix of every cache key
KeyPrefix == <<"h", "o", "t", "_", "t", "a", "k", "e", ":">>

\* CacheService._make_key: the f-string of the prefix, the lower-cased trimmed
\* topic, the style and, when agent_type is truthy, the agent_type
_make_key(topic, style, agent_type) ==
    IF agent_type \notin {"None", ""}
    THEN KeyPrefix \o strip(lower(topic)) \o <<":">> \o fstr(style) \o <<":">>
         \o AgentTypeText[agent_type]
    ELSE KeyPrefix \o strip(lower(topic)) \o <<":">> \o fstr(style)

\* the pool stored under key ([] when the key is absent)
PoolAt(key) == IF key \in DOMAIN cache.store THEN cache.store[key] ELSE <<>>

\* CacheService.get_random_variant: the (variant, pool size) pairs it may
\* return; random.choice picks any variant of the pool
get_random_variant(topic, style, agent_type) ==
    IF ~cache.client \/ cache.fails THEN {<<NoneVariant, 0>>}
    ELSE Let(PoolAt(_make_key(topic, style, agent_type)), LAMBDA variants :
             IF variants = <<>> THEN {<<NoneVariant, 0>>}
             ELSE {<<variants[i], Len(variants)>> : i \in DOMAIN variants})

\* of equal variants the last is kept, in the place of the last
RECURSIVE DedupeVariants_keeps_last(_, _, _)
DedupeVariants_keeps_last(variants, i, deduped) ==
    IF i > Len(variants) THEN deduped
    ELSE DedupeVariants_keeps_last(variants, i + 1,
                        Append(SelectSeq(deduped, LAMBDA item : item # variants[i]),
                               variants[i]))

\* CacheService._dedupe_and_trim, from item i on: the first of equal variants
\* is kept
RECURSIVE DedupeVariants(_, _, _)
DedupeVariants(variants, i, deduped) ==
    IF i > Len(variants) THEN deduped
    ELSE DedupeVariants(variants, i + 1,
                        IF variants[i] \in Range(deduped) THEN deduped
                        ELSE Append(deduped, variants[i]))

\* CacheService._dedupe_and_trim: the last max_variants of the deduplicated pool
_dedupe_and_trim(variants) ==
    Let(DedupeVariants(variants, 1, <<>>), LAMBDA deduped :
        Slice(deduped, Max2(1, Len(deduped) - cache.max_variants + 1), Len(deduped)))

\* CacheService.add_variant: the store afterwards
add_variant(topic, style, agent_type, value) ==
    IF ~cache.client \/ cache.fails THEN cache.store
    ELSE Let(_make_key(topic, style, agent_type), LAMBDA key :
             (key :> _dedupe_and_trim(Append(PoolAt(key), value))) @@ cache.store)

\* CacheService.add_variant: the pool size it returns (0 without a client
\* and when a client call raises)
add_variant_returns(topic, style, agent_type, value) ==
    IF ~cache.client \/ cache.fails THEN 0
    ELSE Len(_dedupe_and_trim(Append(PoolAt(_make_key(topic, style, agent_type)), value)))

\* HotTakeResponse(...): the validator rejects a blank hot_take or topic and
\* strips both; sources None is the empty list
HotTakeResponse(hot_take, topic, style, agent_used, web_search_used, news_context, sources) ==
    IF strip(hot_take) = <<>> \/ strip(topic) = <<>> THEN [kind |-> "raises"]
    ELSE [kind |-> "response", hot_take |-> strip(hot_take), topic |-> strip(topic),
          style |-> style, agent_used |-> agent_used, web_search_used |-> web_search_used,
          news_context |-> news_context, sources |-> sources]

\* result.model_dump(mode="json"): the fields as a dict
model_dump(result) == [key \in DOMAIN result \ {"kind"} |-> result[key]]

\* HotTakeResponse.model_validate(cached)
model_validate(cached) ==
    HotTakeResponse(cached.hot_take, cached.topic, cached.style, cached.agent_used,
                    cached.web_search_used, cached.news_context, cached.sources)

\* value or None
OrNone(value) == IF Truthy(value) THEN value ELSE NoneStr

\* _build_web_source_records / _build_news_source_records, from item i on;
\* snippet_key is "snippet" for web results and "summary" for news articles
RECURSIVE SourceRecords(_, _, _, _)
SourceRecords(type, snippet_key, results, i) ==
    IF i > Len(results) THEN <<>>
    ELSE Let(strip(Get(results[i], "title", <<>>)), LAMBDA title :
         Let(strip(Get(results[i], "url", <<>>)), LAMBDA url :
             (IF title = <<>> \/ url = <<>> THEN <<>>
              ELSE <<[type |-> type, title |-> title, url |-> url,
                      snippet |-> OrNone(Get(results[i], snippet_key, <<>>)),
                      source |-> OrNone(Get(results[i], "source", <<>>)),
                      published |-> Get(results[i], "published", NoDate)]>>)
             \o SourceRecords(type, snippet_key, results, i + 1)))

\* HotTakeService._build_web_source_records
_build_web_source_records(results) == SourceRecords("web", "snippet", results, 1)

\* HotTakeService._build_news_source_records
_build_news_source_records(articles) == SourceRecords("news", "summary", articles, 1)

NoWebResults ==
    <<"N", "o", " ", "w", "e", "b", " ", "s", "e", "a", "r", "c", "h", " ", "r", "e", "s", "u", "l", "t", "s">>

NoRecentNews ==
    <<"N", "o", " ", "r", "e", "c", "e", "n", "t", " ", "n", "e", "w", "s", " ", "f", "o", "u", "n", "d">>

NoSearch == [parts |-> <<>>, sources |-> <<>>, calls |-> <<>>]

\* the web-search block of generate_hot_take and stream_hot_take: the context
\* parts and source records it adds; an exception leaves both as they were
web_search_part(request) ==
    IF ~request.use_web_search \/ web.kind = "raises" THEN NoSearch
    ELSE [parts |-> IF Truthy(web.context) /\ ~contains(web.context, NoWebResults)
                    THEN <<web.context>> ELSE <<>>,
          sources |-> _build_web_source_records(web.results),
          calls |-> <<>>]

\* the news-search block of generate_hot_take and stream_hot_take
news_search_part(request) ==
    IF ~request.use_news_search THEN NoSearch
    ELSE Let(search_recent_news(request.topic, request.max_articles, request.news_days,
                                request.strict_quality_mode), LAMBDA searched :
         Let(format_news_context(searched.ret), LAMBDA news_context :
             [parts |-> IF news_context # <<>> /\ ~contains(news_context, NoRecentNews)
                        THEN <<news_context>> ELSE <<>>,
              sources |-> _build_news_source_records(searched.ret),
              calls |-> searched.calls]))

\* "\n\n".join(context_parts) if context_parts else None
combined_context(context_parts) ==
    IF context_parts = <<>> THEN NoneStr ELSE join(<<"\n", "\n">>, context_parts)

\* the flag is set whenever a search was requested
generate_fresh_flag_from_request(request, agent) ==
    Let(web_search_part(request), LAMBDA web_part :
    Let(news_search_part(request), LAMBDA news_part :
    Let(combined_context(web_part.parts \o news_part.parts), LAMBDA combined :
    Let(request.use_web_search \/ request.use_news_search, LAMBDA use_search :
    Let(agent_generate_hot_take(agent), LAMBDA generated :
    Let(IF generated.raises THEN [kind |-> "raises"]
        ELSE HotTakeResponse(generated.text, request.topic, request.style, Agents[agent],
                             use_search,
                             IF use_search THEN combined ELSE NoneStr,
                             web_part.sources \o news_part.sources), LAMBDA result :
        [ret |-> result,
         calls |-> news_part.calls,
         prompts |-> <<[agent |-> agent, topic |-> request.topic, style |-> request.style,
                        news_context |-> combined, stream |-> FALSE]>>,
         store |-> IF result.kind = "response" /\ ~use_search
                   THEN add_variant(request.topic, request.style, request.agent_type,
                                    model_dump(result))
                   ELSE cache.store]))))))

\* generate_hot_take past the cache check: searches, generation, response,
\* cache write
generate_fresh(request, agent) ==
    Let(web_search_part(request), LAMBDA web_part :
    Let(news_search_part(request), LAMBDA news_part :
    Let(combined_context(web_part.parts \o news_part.parts), LAMBDA combined :
    Let(request.use_web_search \/ request.use_news_search, LAMBDA use_search :
    Let(agent_generate_hot_take(agent), LAMBDA generated :
    Let(IF generated.raises THEN [kind |-> "raises"]
        ELSE HotTakeResponse(generated.text, request.topic, request.style, Agents[agent],
                             use_search /\ combined # NoneStr,
                             IF use_search THEN combined ELSE NoneStr,
                             web_part.sources \o news_part.sources), LAMBDA result :
        [ret |-> result,
         calls |-> news_part.calls,
         prompts |-> <<[agent |-> agent, topic |-> request.topic, style |-> request.style,
                        news_context |-> combined, stream |-> FALSE]>>,
         store |-> IF result.kind = "response" /\ ~use_search
                   THEN add_variant(request.topic, request.style, request.agent_type,
                                    model_dump(result))
                   ELSE cache.store]))))))

\* a cached variant is served whenever the pool holds one
ServesCached_any_pool(request, picked) ==
    /\ ~(request.use_web_search \/ request.use_news_search)
    /\ picked[1] # NoneVariant

\* the cache check of generate_hot_take and stream_hot_take: a cached variant
\* is served when no search is requested and the pool is full
ServesCached(request, picked) ==
    /\ ~(request.use_web_search \/ request.use_news_search)
    /\ picked[1] # NoneVariant
    /\ picked[2] >= cache.max_variants

\* HotTakeService.generate_hot_take, served by `agent`, with `picked` the
\* answer of get_random_variant
generate_hot_take(request, agent, picked) ==
    IF ServesCached(request, picked)
    THEN [ret |-> model_validate(picked[1]), calls |-> <<>>, prompts |-> <<>>,
          store |-> cache.store]
    ELSE generate_fresh(request, agent)


\* the request's topic and style
Topic == <<"A", "b", " ", "c", "d">>

Style == <<"s">>

\* a cached variant: the dump of a response without search
Variant(hot_take) ==
    [hot_take |-> hot_take, topic |-> Topic, style |-> Style,
     agent_used |-> "OpenAI Agent", web_search_used |-> FALSE,
     news_context |-> NoneStr, sources |-> <<>>]

\* cached texts: one word, and two words with a line feed between them
VariantTexts == <<(<<"x">>), (<<"y", "\n", "z">>)>>

\* the cache: disabled (no REDIS_URL), or a client with a pool limit of 1 or
\* 2 and a store holding nothing, one or two variants under the key of a
\* request without agent type, or one under the key of an openai request; a
\* client whose calls raise
CacheInputs ==
    {[client |-> FALSE, fails |-> FALSE, max_variants |-> 1, store |-> <<>>],
     [client |-> TRUE, fails |-> TRUE, max_variants |-> 1,
      store |-> (_make_key(Topic, Style, "None") :> <<Variant(VariantTexts[1])>>)]}
    \cup {[client |-> TRUE, fails |-> FALSE, max_variants |-> size, store |-> store] :
            size \in {1, 2},
            store \in {<<>>,
                       _make_key(Topic, Style, "None") :> <<Variant(VariantTexts[1])>>,
                       _make_key(Topic, Style, "None")
                           :> <<Variant(VariantTexts[1]), Variant(VariantTexts[2])>>,
                       _make_key(Topic, Style, "openai")
                           :> <<Variant(VariantTexts[2])>>}}

\* what the web search service answers: it raises; no results and the
\* no-results sentence; one result with its context
WebInputs ==
    {[kind |-> "raises"],
     [kind |-> "results", results |-> <<>>,
      context |-> NoWebResults \o <<" ", "f", "o", "u", "n", "d", ".">>],
     [kind |-> "results",
      results |-> <<[title |-> <<"a", "b">>, url |-> Scheme \o HostX \o <<"/", "w">>,
                     snippet |-> <<"s">>, published |-> NoDate, source |-> HostX]>>,
      context |-> <<"W", "e", "b", ":", "\n", "1", ".", " ", "a", "b">>]}

\* what the agent's model produces: the tokens it streams, and whether the
\* call fails after them (a completion is the tokens joined)
LlmInputs ==
    [tokens : {<<>>, <<(<<" ">>)>>, <<(<<"H">>)>>, <<(<<" ", "H">>), (<<"o", "t">>), (<<" ">>)>>},
     raises : BOOLEAN]

\* what get_everything answers in the hot-take requests
NewsInputs ==
    {[kind |-> "raises"],
     [kind |-> "response", status |-> "ok", articles |-> <<>>],
     [kind |-> "response", status |-> "ok", articles |-> <<Article(<<"b">>)>>],
     [kind |-> "response", status |-> "ok",
      articles |-> <<Article(<<"b">>), [Article(<<"h">>) EXCEPT !.description = NoneStr]>>],
     [kind |-> "response", status |-> "ok",
      articles |-> <<[Article(<<"n">>) EXCEPT !.title = NoRecentNews]>>]}

\* requests that passed HotTakeRequest's validation
RequestInputs ==
    {[topic |-> Topic, style |-> Style, agent_type |-> agent_type,
      use_web_search |-> use_web_search, use_news_search |-> use_news_search,
      max_articles |-> <<2>>, web_search_provider |-> "None", news_days |-> NoneInt,
      strict_quality_mode |-> FALSE] :
        agent_type \in {"None", "openai", "anthropic"},
        use_web_search \in BOOLEAN, use_news_search \in BOOLEAN}

\* the generator has not been started
NotStarted == [pc |-> "idle"]

InitHotTake ==
    /\ now = 0
    /\ allowlist = {}
    /\ blocklist = parse_domain_list(RawBlocklist)
    /\ trusted_domains = parse_domain_list(RawTrustedDomains)
    /\ score_weights = DefaultWeights
    /\ api_key = [newsapi |-> <<"k">>, brave |-> NoneStr, serper |-> NoneStr]
    /\ newsapi_client = NewsApiClient(api_key.newsapi)
    /\ http = <<>>
    /\ requests = <<>>
    /\ fn = "idle"
    /\ args \in RequestInputs
    /\ web \in IF args.use_web_search THEN WebInputs ELSE {[kind |-> "raises"]}
    /\ response \in IF args.use_news_search THEN NewsInputs ELSE {[kind |-> "raises"]}
    /\ cache \in IF args.use_web_search \/ args.use_news_search
                 THEN {[client |-> FALSE, fails |-> FALSE, max_variants |-> 1, store |-> <<>>]}
                 ELSE CacheInputs
    /\ llm \in LlmInputs
    /\ NoLimiter
    /\ prompts = <<>>
    /\ events = <<>>
    /\ frame = NotStarted
    /\ ret = <<>>

CallGenerateHotTake ==
    /\ fn = "idle"
    /\ fn' = "generate_hot_take"
    /\ \E agent \in AgentChoices(args.agent_type) :
       \E picked \in IF args.use_web_search \/ args.use_news_search THEN {<<NoneVariant, 0>>}
                     ELSE get_random_variant(args.topic, args.style, args.agent_type) :
       \E result \in {generate_hot_take(args, agent, picked)} :
           /\ ret' = result.ret
           /\ requests' = requests \o result.calls
           /\ prompts' = prompts \o result.prompts
           /\ cache' = [cache EXCEPT !.store = result.store]
    /\ UNCHANGED <<Quality, newsapi_client, response, api_key, http, web, llm, events, frame,
                   Limiter, args>>

\* stream_hot_take is an async generator: each action below runs it from one
\* yield to the next and appends the yielded event to `events` (sse() wraps
\* every event in one "data:" frame).  frame.pc names the yield it is
\* suspended at; "raised" is an exception leaving the generator, "end" its
\* return.

StatusEvent(message) == [type |-> "status", message |-> message]

SourcesEvent(sources) == [type |-> "sources", sources |-> sources]

TokenEvent(text) == [type |-> "token", text |-> text]

ErrorEvent == [type |-> "error", detail |-> "Generation failed. Please try again."]

DoneEvent(hot_take, topic, style, agent_used, web_search_used, news_context, sources) ==
    [type |-> "done", hot_take |-> hot_take, topic |-> topic, style |-> style,
     agent_used |-> agent_used, web_search_used |-> web_search_used,
     news_context |-> news_context, sources |-> sources]

Generating(agent) == StatusEvent(<<"Generating with ", Agents[agent], "...">>)

\* the generator is suspended at the yield of `event`, at position pc
Yield(event, pc, locals) ==
    /\ events' = Append(events, event)
    /\ frame' = [locals EXCEPT !.pc = pc]

\* an exception leaves the generator: nothing is yielded
Raise(locals) ==
    /\ events' = events
    /\ frame' = [locals EXCEPT !.pc = "raised"]

\* the sources event when there are source records, else the generating status
YieldSourcesOrGenerating(locals) ==
    IF locals.sources # <<>>
    THEN Yield(SourcesEvent(locals.sources), "sources", locals)
    ELSE Yield(Generating(locals.agent), "generating", locals)

\* the rest of the search phase, entered after the web-search block
YieldFromNewsOn(locals) ==
    IF args.use_news_search
    THEN Yield(StatusEvent("Searching recent news..."), "news", locals)
    ELSE YieldSourcesOrGenerating(locals)

\* what no step of the generator assigns
StreamKeeps == <<Quality, newsapi_client, response, api_key, http, web, llm, Limiter, args,
                 ret>>

\* agent choice, cache check, first status event
StreamStart ==
    /\ fn = "idle"
    /\ fn' = "stream_hot_take"
    /\ \E agent \in AgentChoices(args.agent_type) :
       \E picked \in IF args.use_web_search \/ args.use_news_search THEN {<<NoneVariant, 0>>}
                     ELSE get_random_variant(args.topic, args.style, args.agent_type) :
       \E locals \in {[pc |-> "start", agent |-> agent, parts |-> <<>>, sources |-> <<>>,
                       tokens |-> <<>>, pulled |-> 0, cached |-> NoneVariant,
                       words |-> <<>>]} :
           IF ServesCached(args, picked)
           THEN \E cached \in {model_validate(picked[1])} :
                    IF cached.kind = "raises" THEN Raise(locals)
                    ELSE Yield(StatusEvent("Serving cached take..."), "cached",
                               [locals EXCEPT !.cached = cached,
                                              !.words = split_whitespace(cached.hot_take)])
           ELSE IF args.use_web_search
           THEN Yield(StatusEvent("Searching the web..."), "web", locals)
           ELSE YieldFromNewsOn(locals)
    /\ UNCHANGED <<StreamKeeps, requests, cache, prompts>>

\* the cached take replayed word by word, a space after all but the last
StreamReplayToken ==
    /\ fn = "stream_hot_take"
    /\ frame.pc = "cached"
    /\ frame.words # <<>>
    /\ Yield(TokenEvent(Head(frame.words)
                        \o (IF Len(frame.words) > 1 THEN <<" ">> ELSE <<>>)),
             "cached", [frame EXCEPT !.words = Tail(frame.words)])
    /\ UNCHANGED <<StreamKeeps, requests, cache, prompts, fn>>

\* the done event of the cached take
StreamReplayDone ==
    /\ fn = "stream_hot_take"
    /\ frame.pc = "cached"
    /\ frame.words = <<>>
    /\ Yield(DoneEvent(frame.cached.hot_take, frame.cached.topic, frame.cached.style,
                       frame.cached.agent_used, frame.cached.web_search_used,
                       frame.cached.news_context, frame.cached.sources),
             "done", frame)
    /\ UNCHANGED <<StreamKeeps, requests, cache, prompts, fn>>

\* the web-search block
StreamWebSearch ==
    /\ fn = "stream_hot_take"
    /\ frame.pc = "web"
    /\ \E part \in {web_search_part(args)} :
           YieldFromNewsOn([frame EXCEPT !.parts = @ \o part.parts,
                                         !.sources = @ \o part.sources])
    /\ UNCHANGED <<StreamKeeps, requests, cache, prompts, fn>>

\* the news-search block
StreamNewsSearch ==
    /\ fn = "stream_hot_take"
    /\ frame.pc = "news"
    /\ \E part \in {news_search_part(args)} :
           /\ requests' = requests \o part.calls
           /\ YieldSourcesOrGenerating([frame EXCEPT !.parts = @ \o part.parts,
                                                     !.sources = @ \o part.sources])
    /\ UNCHANGED <<StreamKeeps, cache, prompts, fn>>

\* the generating status after the sources event
StreamGenerating ==
    /\ fn = "stream_hot_take"
    /\ frame.pc = "sources"
    /\ Yield(Generating(frame.agent), "generating", frame)
    /\ UNCHANGED <<StreamKeeps, requests, cache, prompts, fn>>

\* the generator is in the `async for` over agent.generate_hot_take_stream
InTokenLoop == fn = "stream_hot_take" /\ frame.pc \in {"generating", "token"}

\* the agent's stream is opened when its first item is asked for
StreamCalled ==
    prompts' = IF frame.pc = "generating"
               THEN Append(prompts, [agent |-> frame.agent, topic |-> args.topic,
                                     style |-> args.style,
                                     news_context |-> combined_context(frame.parts),
                                     stream |-> TRUE])
               ELSE prompts

\* the agent yields its next token
StreamToken ==
    /\ InTokenLoop
    /\ frame.pulled < Len(llm.tokens)
    /\ StreamCalled
    /\ \E token \in {llm.tokens[frame.pulled + 1]} :
           Yield(TokenEvent(token), "token",
                 [frame EXCEPT !.tokens = Append(@, token), !.pulled = @ + 1])
    /\ UNCHANGED <<StreamKeeps, requests, cache, fn>>

\* the agent's exception is not caught: it leaves the generator
StreamFail_uncaught ==
    /\ InTokenLoop
    /\ frame.pulled = Len(llm.tokens)
    /\ llm.raises
    /\ StreamCalled
    /\ Raise(frame)
    /\ UNCHANGED <<StreamKeeps, requests, cache, fn>>

\* the agent's stream raises: the error event
StreamFail ==
    /\ InTokenLoop
    /\ frame.pulled = Len(llm.tokens)
    /\ llm.raises
    /\ StreamCalled
    /\ Yield(ErrorEvent, "error", frame)
    /\ UNCHANGED <<StreamKeeps, requests, cache, fn>>

\* the agent's stream completes: the response is built, cached when no search
\* was requested, and the done event yielded
StreamFinish ==
    /\ InTokenLoop
    /\ frame.pulled = Len(llm.tokens)
    /\ ~llm.raises
    /\ StreamCalled
    /\ \E use_search \in {args.use_web_search \/ args.use_news_search} :
       \E result \in {HotTakeResponse(concat(frame.tokens), args.topic, args.style,
                                      Agents[frame.agent],
                                      use_search /\ combined_context(frame.parts) # NoneStr,
                                      IF use_search THEN combined_context(frame.parts)
                                      ELSE NoneStr,
                                      frame.sources)} :
           IF result.kind = "raises"
           THEN Raise(frame) /\ cache' = cache
           ELSE /\ cache' = IF use_search THEN cache
                            ELSE [cache EXCEPT !.store =
                                     add_variant(args.topic, args.style, args.agent_type,
                                                 model_dump(result))]
                /\ Yield(DoneEvent(result.hot_take, args.topic, args.style,
                                   Agents[frame.agent], result.web_search_used,
                                   result.news_context, result.sources),
                         "done", frame)
    /\ UNCHANGED <<StreamKeeps, requests, fn>>

\* the generator returns after the done or the error event
StreamReturn ==
    /\ fn = "stream_hot_take"
    /\ frame.pc \in {"done", "error"}
    /\ frame' = [frame EXCEPT !.pc = "end"]
    /\ UNCHANGED <<StreamKeeps, requests, cache, prompts, events, fn>>

NextHotTake ==
    \/ CallGenerateHotTake
    \/ StreamStart
    \/ StreamReplayToken
    \/ StreamReplayDone
    \/ StreamWebSearch
    \/ StreamNewsSearch
    \/ StreamGenerating
    \/ StreamToken
    \/ StreamFail
    \/ StreamFinish
    \/ StreamReturn

SpecHotTake == InitHotTake /\ [][NextHotTake]_vars

\* the request asked for web and/or news enrichment
UseSearch == args.use_web_search \/ args.use_news_search

\* what the request's news search returns
NewsFound ==
    search_recent_news(args.topic, args.max_articles, args.news_days,
                       args.strict_quality_mode).ret

\* the web search was not asked for, raised, or returned nothing
NoWebBlock == ~args.use_web_search \/ web.kind = "raises" \/ web.results = <<>>

\* the news search was not asked for or returned nothing (it never raises)
NoNewsBlock == ~args.use_news_search \/ NewsFound = <<>>

\* C17: when a request asks for enrichment, the agent is called once whatever
\* the searches did, with a context that leaves out the block of every search
\* that raised or returned nothing (None when no block is left); the response
\* carries the agent's text, and its web_search_used flag is true exactly when
\* the context passed to the agent was non-empty.
SearchFailureStillAnswers ==
    (fn = "generate_hot_take" /\ UseSearch) =>
        /\ Len(prompts) = 1
        /\ (NoWebBlock /\ NoNewsBlock) => prompts[1].news_context = NoneStr
        /\ (NoWebBlock /\ ~NoNewsBlock) =>
               prompts[1].news_context \in {NoneStr, format_news_context(NewsFound)}
        /\ (~NoWebBlock /\ NoNewsBlock) => prompts[1].news_context = web.context
        /\ Let(agent_generate_hot_take(prompts[1].agent), LAMBDA generated :
               (~generated.raises /\ generated.text # <<>>) =>
                   /\ ret.kind = "response"
                   /\ ret.hot_take = generated.text)
        /\ ret.kind = "response" =>
               (ret.web_search_used <=> Truthy(prompts[1].news_context))

\* web and news were asked for, the web search raised and the news search
\* found nothing: the response comes without context and with the flag unset
SearchFailureStillAnswersWitness ==
    /\ fn = "generate_hot_take"
    /\ args.use_web_search /\ args.use_news_search
    /\ web.kind = "raises"
    /\ NewsFound = <<>>
    /\ ret.kind = "response"
    /\ ~ret.web_search_used
    /\ prompts[1].news_context = NoneStr

\* ---------------------------------------------------------------------
\* Concurrent search calls on one NewsSearchService instance.  Each call runs
\* the statements of _fetch_news_api_articles and _rank_and_filter_articles
\* in order on its own locals; calls in different threads interleave between
\* the stages.  Here args, response, frame and ret hold one value per call.

\* the in-flight calls
Calls == {1, 2}

\* the days_back search_recent_news passes on for a call
effective_days(call) ==
    IF call.days_back # NoneInt THEN call.days_back[1] ELSE default_days

\* what search_recent_news returns for a call whose request the provider
\* answers with answer, when the call runs alone
SearchAlone(call, answer) ==
    IF newsapi_client = "None" \/ call.max_results = NoneInt THEN <<>>
    ELSE IF answer.kind = "raises" THEN <<>>
    ELSE IF answer.status # "ok" THEN <<>>
    ELSE Let(_rank_and_filter_articles(call.topic, parse_articles(answer.articles),
                                       call.max_results[1], effective_days(call),
                                       call.strict_quality_mode), LAMBDA ranked :
             IF ranked.raises THEN <<>> ELSE ranked.final_articles)

\* the arguments of the concurrent calls
ConcurrentCallInputs ==
    { [topic |-> <<"A", "b", " ", "c", "d">>, max_results |-> <<2>>,
       days_back |-> NoneInt, strict_quality_mode |-> FALSE],
      [topic |-> <<"A", "b", " ", "c", "d">>, max_results |-> <<1>>,
       days_back |-> <<2>>, strict_quality_mode |-> TRUE],
      [topic |-> <<"q">>, max_results |-> <<2>>,
       days_back |-> <<2>>, strict_quality_mode |-> FALSE],
      [topic |-> <<"q">>, max_results |-> NoneInt,
       days_back |-> NoneInt, strict_quality_mode |-> FALSE] }

\* the provider's answers to the concurrent calls
ConcurrentResponses ==
    { [kind |-> "raises"],
      [kind |-> "response", status |-> "error", articles |-> <<Article(<<"b">>)>>] }
    \cup {[kind |-> "response", status |-> "ok", articles |-> as] :
            as \in { Pick(CoreArticles, {1, 2, 7}),
                     Reverse(Pick(CoreArticles, {3, 6, 7})),
                     <<CoreArticles[3],
                       [Article(<<"h">>) EXCEPT !.description = NoneStr]>>,
                     <<[Article(<<"k">>) EXCEPT !.url = Scheme \o WwwDot \o HostB \o <<"/", "k">>],
                       CoreArticles[7], CoreArticles[4]>> }}

\* a call before its first statement
CallStart == [pc |-> "start", records |-> <<>>]

InitConcurrent ==
    /\ now = 0
    /\ allowlist = {}
    /\ blocklist = parse_domain_list(RawBlocklist)
    /\ trusted_domains = parse_domain_list(RawTrustedDomains)
    /\ score_weights = DefaultWeights
    /\ api_key = [newsapi |-> <<"k">>, brave |-> NoneStr, serper |-> NoneStr]
    /\ newsapi_client = NewsApiClient(api_key.newsapi)
    /\ http = <<>>
    /\ web = [kind |-> "none"]
    /\ llm = [kind |-> "none"]
    /\ cache = [kind |-> "none"]
    /\ NoLimiter
    /\ prompts = <<>>
    /\ events = <<>>
    /\ requests = <<>>
    /\ fn = "idle"
    /\ args \in [Calls -> ConcurrentCallInputs]
    /\ response \in [Calls -> ConcurrentResponses]
    /\ frame = [c \in Calls |-> CallStart]
    /\ ret = [c \in Calls |-> <<>>]

\* what a stage of a call leaves alone
SearchKeeps == <<Quality, newsapi_client, response, api_key, http, web, llm, cache,
                 prompts, events, Limiter, args>>

\* the call returns result
SearchReturns(c, result) ==
    /\ frame' = [frame EXCEPT ![c] = [pc |-> "done", records |-> <<>>]]
    /\ ret' = [ret EXCEPT ![c] = result]

\* the call goes on to the stage pc with its record list
SearchGoesOn(c, pc, records) ==
    /\ frame' = [frame EXCEPT ![c] = [pc |-> pc, records |-> records]]
    /\ ret' = ret

\* search_recent_news up to the parsed articles of _fetch_news_api_articles:
\* the client check, the request, the status check and the parse loop
SearchFetch(c) ==
    /\ frame[c].pc = "start"
    /\ fn' = "search_recent_news"
    /\ IF newsapi_client = "None" \/ args[c].max_results = NoneInt
       THEN /\ requests' = requests
            /\ SearchReturns(c, <<>>)
       ELSE /\ requests' = Append(requests,
                                  request_params(args[c].topic, args[c].max_results[1],
                                                 effective_days(args[c]),
                                                 args[c].strict_quality_mode))
            /\ IF response[c].kind = "raises" THEN SearchReturns(c, <<>>)
               ELSE IF response[c].status # "ok" THEN SearchReturns(c, <<>>)
               ELSE SearchGoesOn(c, "parsed", parse_articles(response[c].articles))
    /\ UNCHANGED SearchKeeps

\* _rank_and_filter_articles: the filter loop, dedupe_records and the
\* recency window, on the call's own articles
SearchFilter(c) ==
    /\ frame[c].pc = "parsed"
    /\ fn' = "search_recent_news"
    /\ \E r \in {rank_recent(args[c].topic, frame[c].records, effective_days(args[c]),
                             args[c].strict_quality_mode)} :
           IF r.raises THEN SearchReturns(c, <<>>)
           ELSE SearchGoesOn(c, "recent", r.recent)
    /\ UNCHANGED <<SearchKeeps, requests>>

\* the scoring loop reads a record list shared by the calls of the instance:
\* the list the other call filtered, when that call has one
SearchScore_shared_records(c) ==
    /\ frame[c].pc = "recent"
    /\ fn' = "search_recent_news"
    /\ \E recent \in {IF \E d \in Calls \ {c} : frame[d].pc = "recent"
                      THEN frame[CHOOSE d \in Calls \ {c} : frame[d].pc = "recent"].records
                      ELSE frame[c].records} :
           IF \E i \in DOMAIN recent : score_item_raises(recent[i])
           THEN SearchReturns(c, <<>>)
           ELSE SearchGoesOn(c, "sorted",
                             rank_sorted(args[c].topic, recent, effective_days(args[c]),
                                         args[c].strict_quality_mode))
    /\ UNCHANGED <<SearchKeeps, requests>>

\* _rank_and_filter_articles: the scoring loop and the sort, on the call's
\* own filtered records
SearchScore(c) ==
    /\ frame[c].pc = "recent"
    /\ fn' = "search_recent_news"
    /\ \E recent \in {frame[c].records} :
           IF \E i \in DOMAIN recent : score_item_raises(recent[i])
           THEN SearchReturns(c, <<>>)
           ELSE SearchGoesOn(c, "sorted",
                             rank_sorted(args[c].topic, recent, effective_days(args[c]),
                                         args[c].strict_quality_mode))
    /\ UNCHANGED <<SearchKeeps, requests>>

\* _rank_and_filter_articles: the first max_results records without their
\* transient keys, returned through _fetch_news_api_articles
SearchFinish(c) ==
    /\ frame[c].pc = "sorted"
    /\ fn' = "search_recent_news"
    /\ \E final_articles \in {Prefix(frame[c].records, args[c].max_results[1])} :
           SearchReturns(c, [i \in DOMAIN final_articles |->
                                pop_transient(final_articles[i])])
    /\ UNCHANGED <<SearchKeeps, requests>>

NextConcurrent ==
    \/ \E c \in Calls : SearchFetch(c)
    \/ \E c \in Calls : SearchFilter(c)
    \/ \E c \in Calls : SearchScore(c)
    \/ \E c \in Calls : SearchFinish(c)

SpecConcurrent == InitConcurrent /\ [][NextConcurrent]_vars

\* C18: in every interleaving of the stages of concurrent search calls, no
\* stage changes the allowlist, blocklist, trusted domains or score weights,
\* and each call that has returned returned what search_recent_news returns
\* for its arguments and its provider response when run alone.
ConcurrentCallsIsolated ==
    /\ [](\A c \in Calls :
              frame[c].pc = "done" => ret[c] = SearchAlone(args[c], response[c]))
    /\ [][UNCHANGED <<allowlist, blocklist, trusted_domains, score_weights>>]_vars

\* both calls returned, with different non-empty results for different
\* topics, after call 2 sent its request first and call 1 sent its own
\* while call 2 was in flight
ConcurrentCallsIsolatedWitness ==
    /\ \A c \in Calls : frame[c].pc = "done" /\ ret[c] # <<>>
    /\ ret[1] # ret[2]
    /\ args[1].topic # args[2].topic
    /\ Len(requests) = 2
    /\ requests[1].q = _build_news_query(args[2].topic, args[2].strict_quality_mode)

\* ---------------------------------------------------------------------
\* The events of a stream_hot_take run

\* the positions of the events of a type
EventsOfType(type) == {i \in DOMAIN events : events[i].type = type}

\* the texts of the token events, in the order emitted
TokenTexts ==
    Let(SelectSeq(events, LAMBDA event : event.type = "token"), LAMBDA token_events :
        [i \in DOMAIN token_events |-> token_events[i].text])

\* the run called the agent, whose stream ended without raising, and the
\* generator is past the token loop
StreamCompleted ==
    /\ fn = "stream_hot_take"
    /\ Len(prompts) = 1
    /\ ~llm.raises
    /\ frame.pc \in {"done", "end", "raised"}

\* C19: in a run whose agent stream completes, there is at most one sources
\* event, there is one exactly when there are source records, it precedes
\* every token event, the last event is the done event, and done.hot_take is
\* the concatenation of the token texts, trimmed.
StreamEndsWithDone ==
    StreamCompleted =>
        /\ Cardinality(EventsOfType("sources")) <= 1
        /\ (EventsOfType("sources") # {}) <=> (frame.sources # <<>>)
        /\ \A i \in EventsOfType("sources"), j \in EventsOfType("token") : i < j
        /\ events[Len(events)].type = "done"
        /\ events[Len(events)].hot_take = strip(concat(TokenTexts))

\* the run called the agent, whose stream raised, and the generator is past
\* the token loop
StreamFailed ==
    /\ fn = "stream_hot_take"
    /\ Len(prompts) = 1
    /\ llm.raises
    /\ frame.pc \notin {"generating", "token"}

\* C20: in a run whose agent stream raises, after any number of tokens, the
\* events hold exactly one error event, which is the last event, and no done
\* event; and no step of such a run changes the variant cache.
StreamFailureGivesError ==
    /\ [](StreamFailed =>
              /\ Cardinality(EventsOfType("error")) = 1
              /\ events[Len(events)].type = "error"
              /\ EventsOfType("done") = {})
    /\ [][(llm.raises /\ fn' = "stream_hot_take") => cache' = cache]_vars

\* the agent raised after a token of a request without search, on a service
\* whose cache accepts writes: the run ended with the error event
StreamFailureGivesErrorWitness ==
    /\ StreamFailed
    /\ frame.pc = "end"
    /\ Len(TokenTexts) >= 1
    /\ ~UseSearch
    /\ cache.client /\ ~cache.fails
    /\ events[Len(events)].type = "error"

\* ---------------------------------------------------------------------
\* Cache hits of stream_hot_take

\* the pool of the request's key
RequestPool ==
    IF ~cache.client \/ cache.fails THEN <<>>
    ELSE PoolAt(_make_key(args.topic, args.style, args.agent_type))

\* the request asks for no search and the pool of its key holds at least
\* max_variants entries
CacheHit ==
    /\ ~UseSearch
    /\ RequestPool # <<>>
    /\ Len(RequestPool) >= cache.max_variants

\* C21: on a cache hit stream_hot_take never calls the agent (the cache is as
\* the run found it until a done event), and a run that has returned emitted
\* token events whose texts concatenate to the hot_take of a variant of the
\* pool, followed by a done event, the last event, that carries that variant.
CacheHitReplaysCachedText ==
    (fn = "stream_hot_take" /\ CacheHit) =>
        /\ EventsOfType("done") = {} => prompts = <<>>
        /\ (prompts = <<>> /\ frame.pc = "end") =>
               \E i \in DOMAIN RequestPool :
                   /\ concat(TokenTexts) = RequestPool[i].hot_take
                   /\ \A j \in EventsOfType("token") : j < Len(events)
                   /\ events[Len(events)] =
                          DoneEvent(RequestPool[i].hot_take, RequestPool[i].topic,
                                    RequestPool[i].style, RequestPool[i].agent_used,
                                    RequestPool[i].web_search_used,
                                    RequestPool[i].news_context, RequestPool[i].sources)

\* ---------------------------------------------------------------------
\* CacheService.add_variant, called again and again on one store

\* the variants added: dumps of responses with different texts
CacheValues == {Variant(<<"x">>), Variant(<<"y", "\n", "z">>), Variant(<<"w">>)}

InitCache ==
    /\ now = 0
    /\ allowlist = {}
    /\ blocklist = {}
    /\ trusted_domains = parse_domain_list(RawTrustedDomains)
    /\ score_weights = DefaultWeights
    /\ newsapi_client = "None" /\ response = <<>> /\ requests = <<>>
    /\ api_key = [newsapi |-> NoneStr, brave |-> NoneStr, serper |-> NoneStr]
    /\ http = <<>>
    /\ web = <<>> /\ llm = <<>>
    /\ prompts = <<>> /\ events = <<>> /\ frame = <<>>
    /\ NoLimiter
    /\ cache \in {[client |-> client, fails |-> FALSE, max_variants |-> size, store |-> <<>>] :
                     client \in BOOLEAN, size \in 1..(MaxRecords - 1)}
    /\ fn = "idle"
    /\ args = <<>>
    /\ ret = 0

\* add_variant(topic, style, agent_type, value); a call of the client may
\* raise (`fails`), which the function catches
CallAddVariant ==
    /\ fn' = "add_variant"
    /\ \E agent_type \in {"None", "openai"}, value \in CacheValues, fails \in BOOLEAN :
           /\ args' = [topic |-> Topic, style |-> Style, agent_type |-> agent_type,
                       value |-> value, fails |-> fails]
           /\ cache' = [cache EXCEPT !.store =
                           IF fails THEN cache.store
                           ELSE add_variant(Topic, Style, agent_type, value)]
           /\ ret' = IF fails THEN 0
                     ELSE add_variant_returns(Topic, Style, agent_type, value)
    /\ UNCHANGED <<Quality, newsapi_client, response, requests, api_key, http, web, llm,
                   prompts, events, frame, Limiter>>

NextCache == CallAddVariant

SpecCache == InitCache /\ [][NextCache]_vars

\* the pool stored under the key of the last call
ArgsPool == PoolAt(_make_key(args.topic, args.style, args.agent_type))

\* C22: after an add_variant call that completed (no client call raised),
\* the pool stored under its key has no two equal variants and at most
\* max_variants entries, and the returned size is the pool's length; and a
\* call that adds a variant the pool already holds leaves the pool as it was.
AddVariantKeepsPool ==
    /\ []((fn = "add_variant" /\ cache.client /\ ~args.fails) =>
              /\ \A i, j \in DOMAIN ArgsPool : ArgsPool[i] = ArgsPool[j] => i = j
              /\ Len(ArgsPool) <= cache.max_variants
              /\ ret = Len(ArgsPool)
              /\ args.value \in Range(ArgsPool))
    /\ [][\A key \in DOMAIN cache.store :
              (/\ cache.client /\ ~args'.fails
               /\ key = _make_key(args'.topic, args'.style, args'.agent_type)
               /\ args'.value \in Range(cache.store[key]))
              => cache'.store[key] = cache.store[key]]_vars

\* a pool of max_variants = 2 variants to which its first variant was added
\* again: the same two variants in the same order, and 2 returned
AddVariantKeepsPoolWitness ==
    /\ fn = "add_variant" /\ cache.client /\ ~args.fails
    /\ cache.max_variants = 2
    /\ Len(ArgsPool) = 2
    /\ ret = 2
    /\ args.value = ArgsPool[1]

\* ---------------------------------------------------------------------
\* The rate limiter of the API (main.py, basic_rate_limit).  Here `now` is
\* time.time() in seconds; limiter holds the two settings the middleware
\* reads and request_timestamps_by_ip.

\* rate_limit_window_seconds
rate_limit_window_seconds == 60

\* settings.max_generate_request_bytes
max_generate_request_bytes == 16384

\* requests arrive half a window apart or together, over MaxTicks half windows
MaxTicks == 4

ClockStep == rate_limit_window_seconds \div 2

\* the value of a decimal digit
DigitValue(c) == CHOOSE d \in 0..9 : DigitChars[d + 1] = c

\* the number written by a string of digits
RECURSIVE DigitsValue(_)
DigitsValue(digits) ==
    IF digits = <<>> THEN 0
    ELSE DigitsValue(Slice(digits, 1, Len(digits) - 1)) * 10
         + DigitValue(digits[Len(digits)])

\* int(text): the number as <<n>>, or <<>> where int raises ValueError
int(text) ==
    Let(strip(text), LAMBDA t :
    Let(IF t # <<>> /\ t[1] \in {"+", "-"} THEN Tail(t) ELSE t, LAMBDA digits :
        IF digits = <<>> \/ \E i \in DOMAIN digits : digits[i] \notin Range(DigitChars)
        THEN <<>>
        ELSE <<(IF t[1] = "-" THEN -1 ELSE 1) * DigitsValue(digits)>>))

\* the while loop of basic_rate_limit: timestamps older than the window are
\* taken from the left
RECURSIVE popleft_expired(_, _)
popleft_expired(timestamps, at) ==
    IF timestamps # <<>> /\ at - timestamps[1] > rate_limit_window_seconds
    THEN popleft_expired(Tail(timestamps), at)
    ELSE timestamps

\* the request takes the limited branch of the middleware
IsGeneratePost(request) == request.path = "/api/generate" /\ request.method = "POST"

\* the time of the request is recorded before the limit is looked at
basic_rate_limit_records_rejected(request) ==
    IF ~IsGeneratePost(request)
    THEN [status |-> "call_next", timestamps |-> limiter.request_timestamps_by_ip]
    ELSE IF Truthy(request.content_length) /\ int(request.content_length) = <<>>
    THEN [status |-> "400", timestamps |-> limiter.request_timestamps_by_ip]
    ELSE IF Truthy(request.content_length)
            /\ int(request.content_length)[1] > max_generate_request_bytes
    THEN [status |-> "413", timestamps |-> limiter.request_timestamps_by_ip]
    ELSE Let(popleft_expired(limiter.request_timestamps_by_ip[request.client_ip], now),
             LAMBDA timestamps :
             [status |-> IF Len(timestamps) >= limiter.generate_rate_limit_per_minute
                         THEN "429" ELSE "call_next",
              timestamps |-> [limiter.request_timestamps_by_ip
                                  EXCEPT ![request.client_ip] = Append(timestamps, now)]])

\* basic_rate_limit: the status it answers with ("call_next" where it hands
\* the request on) and request_timestamps_by_ip afterwards
basic_rate_limit(request) ==
    IF ~IsGeneratePost(request)
    THEN [status |-> "call_next", timestamps |-> limiter.request_timestamps_by_ip]
    ELSE IF Truthy(request.content_length) /\ int(request.content_length) = <<>>
    THEN [status |-> "400", timestamps |-> limiter.request_timestamps_by_ip]
    ELSE IF Truthy(request.content_length)
            /\ int(request.content_length)[1] > max_generate_request_bytes
    THEN [status |-> "413", timestamps |-> limiter.request_timestamps_by_ip]
    ELSE Let(popleft_expired(limiter.request_timestamps_by_ip[request.client_ip], now),
             LAMBDA timestamps :
             IF Len(timestamps) >= limiter.generate_rate_limit_per_minute
             THEN [status |-> "429",
                   timestamps |-> [limiter.request_timestamps_by_ip
                                       EXCEPT ![request.client_ip] = timestamps]]
             ELSE [status |-> "call_next",
                   timestamps |-> [limiter.request_timestamps_by_ip
                                       EXCEPT ![request.client_ip] = Append(timestamps, now)]])

\* the client IPs get_client_ip gives
ClientIps == {"ip1", "ip2"}

\* Content-Length headers: absent, empty, not a number, the largest accepted
\* size and one byte more
ContentLengths ==
    {NoneStr, <<>>, <<"x">>, <<"1", "6", "3", "8", "4">>, <<"1", "6", "3", "8", "5">>}

\* POST /api/generate requests of one client with each Content-Length and of
\* another without the header, and a request the limiter does not apply to
LimiterRequests ==
    {[method |-> "POST", path |-> "/api/generate", client_ip |-> "ip1",
      content_length |-> content_length] : content_length \in ContentLengths}
    \cup {[method |-> "POST", path |-> "/api/generate", client_ip |-> "ip2",
           content_length |-> NoneStr],
          [method |-> "GET", path |-> "/api/generate", client_ip |-> "ip1",
           content_length |-> NoneStr]}

InitLimiter ==
    /\ now = 0
    /\ allowlist = {}
    /\ blocklist = {}
    /\ trusted_domains = parse_domain_list(RawTrustedDomains)
    /\ score_weights = DefaultWeights
    /\ newsapi_client = "None" /\ response = <<>> /\ requests = <<>>
    /\ api_key = [newsapi |-> NoneStr, brave |-> NoneStr, serper |-> NoneStr]
    /\ http = <<>>
    /\ web = <<>> /\ llm = <<>> /\ cache = <<>>
    /\ prompts = <<>> /\ events = <<>> /\ frame = <<>>
    /\ limiter \in {[generate_rate_limit_per_minute |-> limit,
                     request_timestamps_by_ip |-> [ip \in ClientIps |-> <<>>]] :
                       limit \in 0..2}
    /\ admitted = [ip \in ClientIps |-> <<>>]
    /\ fn = "idle"
    /\ args = <<>>
    /\ ret = <<>>

\* what the limiter leaves alone
LimiterKeeps == <<allowlist, blocklist, trusted_domains, score_weights, newsapi_client,
                  response, requests, api_key, http, web, llm, cache, prompts, events, frame>>

\* time passes
Tick ==
    /\ now + ClockStep <= ClockStep * MaxTicks
    /\ now' = now + ClockStep
    /\ UNCHANGED <<LimiterKeeps, limiter, admitted, fn, args, ret>>

\* a request goes through the middleware
CallBasicRateLimit ==
    /\ fn' = "basic_rate_limit"
    /\ \E request \in LimiterRequests :
       \E result \in {basic_rate_limit(request)} :
           /\ args' = [request |-> request, at |-> now]
           /\ ret' = result.status
           /\ limiter' = [limiter EXCEPT !.request_timestamps_by_ip = result.timestamps]
           /\ admitted' = IF IsGeneratePost(request) /\ result.status = "call_next"
                          THEN [admitted EXCEPT ![request.client_ip] = Append(@, now)]
                          ELSE admitted
    /\ UNCHANGED <<LimiterKeeps, now>>

NextLimiter == Tick \/ CallBasicRateLimit

SpecLimiter == InitLimiter /\ [][NextLimiter]_vars

\* the requests of ip that passed the limiter no more than a window before `at`
RecentlyAdmitted(ip, at) ==
    {i \in DOMAIN admitted[ip] : at - admitted[ip][i] <= rate_limit_window_seconds}

\* the last request was a POST /api/generate that got as far as the limit
\* check, and was answered 429
Limited ==
    /\ fn = "basic_rate_limit"
    /\ IsGeneratePost(args.request)
    /\ ret = "429"

MaxTakes == 3

\* the requests: with and without an agent type, with and without web search
TakeRequests ==
    {request \in RequestInputs : request.agent_type # "anthropic" /\ ~request.use_news_search}

\* the completions of the agent: two takes, and a blank one
TakeLlm == {[tokens |-> <<text>>, raises |-> FALSE] : text \in {<<"H">>, <<"G">>, <<" ">>}}

InitTakes ==
    /\ now = 0
    /\ allowlist = {}
    /\ blocklist = parse_domain_list(RawBlocklist)
    /\ trusted_domains = parse_domain_list(RawTrustedDomains)
    /\ score_weights = DefaultWeights
    /\ api_key = [newsapi |-> NoneStr, brave |-> NoneStr, serper |-> NoneStr]
    /\ newsapi_client = NewsApiClient(api_key.newsapi)
    /\ http = <<>>
    /\ requests = <<>>
    /\ web = [kind |-> "raises"]
    /\ response = [kind |-> "raises"]
    /\ cache \in {[client |-> TRUE, fails |-> FALSE, max_variants |-> size, store |-> <<>>] :
                     size \in {1, 2}}
    /\ NoLimiter
    /\ prompts = <<>>
    /\ events = <<>>
    /\ frame = NotStarted
    /\ fn = "idle"
    /\ args \in TakeRequests
    /\ llm \in TakeLlm
    /\ ret = <<>>

\* the next request arrives, and the agent will answer it with a completion
NewRequest ==
    /\ fn = "generate_hot_take"
    /\ Len(prompts) < MaxTakes
    /\ fn' = "idle"
    /\ args' \in TakeRequests
    /\ llm' \in TakeLlm
    /\ UNCHANGED <<Quality, newsapi_client, response, requests, api_key, http, web, cache,
                   prompts, events, frame, Limiter, ret>>

NextTakes == NewRequest \/ CallGenerateHotTake

SpecTakes == InitTakes /\ [][NextTakes]_vars

\* C24: a request with web or news search calls the agent and leaves the
\* cache as it was; a request without search is served a variant of its pool,
\* without a call of the agent and with the cache unchanged, when the pool
\* holds at least max_variants entries; otherwise the agent is called and the
\* fresh take, when there is one, is added to the pool of the key, which
\* grows by one for a take it did not hold until it holds max_variants.
CacheServesWhenPoolFull ==
    [][(fn = "idle" /\ fn' = "generate_hot_take") =>
         IF UseSearch
         THEN cache' = cache /\ Len(prompts') = Len(prompts) + 1
         ELSE IF CacheHit
         THEN /\ cache' = cache
              /\ prompts' = prompts
              /\ \E i \in DOMAIN RequestPool : ret' = model_validate(RequestPool[i])
         ELSE /\ Len(prompts') = Len(prompts) + 1
              /\ ret'.kind = "raises" => cache' = cache
              /\ ret'.kind = "response" =>
                     \E pool \in {cache'.store[_make_key(args.topic, args.style,
                                                         args.agent_type)]} :
                         /\ pool[Len(pool)] = model_dump(ret')
                         /\ model_dump(ret') \notin Range(RequestPool) =>
                                Len(pool) = Min2(Len(RequestPool) + 1, cache.max_variants)
    ]_vars

\* with max_variants = 2, after two fresh takes with different texts for the
\* key, a request was served the older of the two from the cache
CacheServesWhenPoolFullWitness ==
    /\ fn = "generate_hot_take"
    /\ ~UseSearch
    /\ cache.max_variants = 2
    /\ Len(prompts) = 2
    /\ Len(RequestPool) = 2
    /\ ret.kind = "response"
    /\ ret.hot_take = RequestPool[1].hot_take
    /\ ret.hot_take # RequestPool[2].hot_take

\* ---------------------------------------------------------------------
\* The end of a stream_hot_take run

\* the generator has returned or an exception has left it
StreamOver == fn = "stream_hot_take" /\ frame.pc \in {"end", "raised"}

\* the positions of the done and error events
TerminalEvents == EventsOfType("done") \cup EventsOfType("error")

\* C25: when a stream_hot_take run is over, its events hold exactly one
\* terminal event (done or error), and it is the last event, whatever the
\* agent did.
StreamEndsWithTerminalEvent ==
    StreamOver => TerminalEvents = {Len(events)}

\* ---------------------------------------------------------------------
\* Concurrent add_variant calls on one CacheService.  add_variant awaits the
\* client twice, at get and at setex; other calls run between the two.  Here
\* args, frame and ret hold one value per call, and requests logs the
\* client's calls.

\* add_variant is at its first statement
AddStart == [pc |-> "start", variants |-> <<>>]

InitRace ==
    /\ now = 0
    /\ allowlist = {}
    /\ blocklist = {}
    /\ trusted_domains = parse_domain_list(RawTrustedDomains)
    /\ score_weights = DefaultWeights
    /\ newsapi_client = "None" /\ response = <<>> /\ requests = <<>>
    /\ api_key = [newsapi |-> NoneStr, brave |-> NoneStr, serper |-> NoneStr]
    /\ http = <<>>
    /\ web = <<>> /\ llm = <<>>
    /\ prompts = <<>> /\ events = <<>>
    /\ NoLimiter
    /\ cache \in {[client |-> TRUE, fails |-> FALSE, max_variants |-> size, store |-> store] :
                     size \in 1..MaxRecords,
                     store \in {<<>>, _make_key(Topic, Style, "None") :> <<Variant(<<"w">>)>>}}
    /\ fn = "idle"
    /\ args \in [Calls -> {[topic |-> Topic, style |-> Style, agent_type |-> "None",
                            value |-> value] : value \in CacheValues}]
    /\ frame = [c \in Calls |-> AddStart]
    /\ ret = [c \in Calls |-> 0]

\* what a step of add_variant leaves alone
RaceKeeps == <<Quality, newsapi_client, response, api_key, http, web, llm, prompts, events,
               Limiter, args>>

\* add_variant up to `await self._client.get(key)`: the pool read becomes the
\* call's local list
AddVariantGet(c) ==
    /\ frame[c].pc = "start"
    /\ fn' = "add_variant"
    /\ \E key \in {_make_key(args[c].topic, args[c].style, args[c].agent_type)} :
           /\ requests' = Append(requests, [op |-> "get", key |-> key, data |-> PoolAt(key)])
           /\ frame' = [frame EXCEPT ![c] = [pc |-> "got", variants |-> PoolAt(key)]]
    /\ UNCHANGED <<RaceKeeps, cache, ret>>

\* add_variant from the append to the return: the local list with the value,
\* deduplicated and trimmed, is written under the key
AddVariantSet(c) ==
    /\ frame[c].pc = "got"
    /\ fn' = "add_variant"
    /\ \E key \in {_make_key(args[c].topic, args[c].style, args[c].agent_type)} :
       \E variants \in {_dedupe_and_trim(Append(frame[c].variants, args[c].value))} :
           /\ requests' = Append(requests, [op |-> "setex", key |-> key, data |-> variants])
           /\ cache' = [cache EXCEPT !.store = (key :> variants) @@ cache.store]
           /\ frame' = [frame EXCEPT ![c] = [pc |-> "done", variants |-> variants]]
           /\ ret' = [ret EXCEPT ![c] = Len(variants)]
    /\ UNCHANGED RaceKeeps

NextRace ==
    \/ \E c \in Calls : AddVariantGet(c)
    \/ \E c \in Calls : AddVariantSet(c)

SpecRace == InitRace /\ [][NextRace]_vars

\* the two add_variant calls have completed
BothAdded == fn = "add_variant" /\ \A c \in Calls : frame[c].pc = "done"

\* C26: when two add_variant calls for one key with distinct values have both
\* completed and the pool they found had room for both, the stored pool holds
\* both values.
NoLostVariant ==
    (/\ BothAdded
     /\ args[1].value # args[2].value
     /\ Len(requests[1].data) + 2 <= cache.max_variants) =>
        \A c \in Calls :
            args[c].value \in Range(PoolAt(_make_key(args[c].topic, args[c].style,
                                                     args[c].agent_type)))

\* ---------------------------------------------------------------------
\* The news block of generate_hot_take

\* the context passed to the agent holds the news block of the articles found
NewsBlockPassed ==
    /\ prompts[1].news_context # NoneStr
    /\ contains(prompts[1].news_context, format_news_context(NewsFound))

\* the response reports a news source
ReportsNewsSources ==
    /\ ret.kind = "response"
    /\ \E i \in DOMAIN ret.sources : ret.sources[i].type = "news"

\* C27: in a generate_hot_take call with news search, the news block is
\* passed to the agent exactly when the search returned at least one
\* article; and a response that reports news sources was generated with the
\* news block and has web_search_used set.
NewsBlockIffArticles ==
    (fn = "generate_hot_take" /\ args.use_news_search) =>
        /\ NewsBlockPassed <=> NewsFound # <<>>
        /\ ReportsNewsSources => (NewsBlockPassed /\ ret.web_search_used)

\* ---------------------------------------------------------------------
\* The strict penalty in the news pipeline

\* the overlap score_record counts for the item the scoring loop hands it
ScoringOverlap(item) ==
    Cardinality(tokenize(args.topic)
                \cap tokenize(Get(item, "title", <<>>) \o <<" ">>
                              \o Or(Get(item, "snippet", <<>>), Get(item, "summary", <<>>))))

\* the item's score in the scoring loop of a call with the given mode
ScoreUnder(item, strict_quality_mode) ==
    score_item(item, args.topic, EffectiveDays, strict_quality_mode)["_quality_score"]

\* C28: every record that reaches the scoring loop of a strict-mode call has
\* nonzero topic-token overlap as score_record counts it, so its strict-mode
\* score is its non-strict score: the no-overlap penalty is never applied.
StrictPenaltyNeverApplied ==
    (GotResponse /\ args.strict_quality_mode) =>
        Let(Survivors.recent, LAMBDA recent :
            \A i \in DOMAIN recent :
                /\ ScoringOverlap(recent[i]) # 0
                /\ ~score_item_raises(recent[i])
                /\ ScoreUnder(recent[i], TRUE) = ScoreUnder(recent[i], FALSE))

\* a strict call that scored and returned a record, for a response that also
\* held an off-topic record with a long enough summary
StrictPenaltyNeverAppliedWitness ==
    /\ GotResponse
    /\ args.strict_quality_mode
    /\ Survivors.recent # <<>>
    /\ ret # <<>>
    /\ Let(parse_articles(response.articles), LAMBDA articles :
           \E i \in DOMAIN articles :
               /\ Len(strip(OrStr(articles[i].summary, <<>>))) >= 90
               /\ ~PassesStrictGate(articles[i]))

\* ---------------------------------------------------------------------
\* Cache keys of requests

\* topics of validated requests (topic_must_not_be_empty returns v.strip())
KeyTopics == {<<"a", "i">>, <<"A", "i">>, <<"a", "i", ":", "s">>}

\* HotTakeRequest.style is an Optional[str] without a validator
KeyStyles ==
    {Style, NoneStr, Style \o <<":">> \o AgentTypeText["openai"], Style \o <<":">> \o Style}

\* validate_agent_type lets through None, "" and the two agent names
KeyAgentTypes == {"None", "", "openai", "anthropic"}

KeyRequests ==
    [topic : KeyTopics, style : KeyStyles, agent_type : KeyAgentTypes]

InitKey ==
    /\ now = 0
    /\ allowlist = {}
    /\ blocklist = {}
    /\ trusted_domains = parse_domain_list(RawTrustedDomains)
    /\ score_weights = DefaultWeights
    /\ newsapi_client = "None" /\ response = <<>> /\ requests = <<>>
    /\ api_key = [newsapi |-> NoneStr, brave |-> NoneStr, serper |-> NoneStr]
    /\ http = <<>>
    /\ web = <<>> /\ llm = <<>>
    /\ prompts = <<>> /\ events = <<>> /\ frame = <<>>
    /\ NoLimiter
    /\ cache = [client |-> TRUE, fails |-> FALSE, max_variants |-> 1, store |-> <<>>]
    /\ fn = "idle"
    /\ args \in KeyRequests \X KeyRequests
    /\ ret = <<>>

\* the keys of the two requests, as get_variants and add_variant make them
CallMakeKey ==
    /\ fn = "idle"
    /\ fn' = "_make_key"
    /\ ret' = <<_make_key(args[1].topic, args[1].style, args[1].agent_type),
                _make_key(args[2].topic, args[2].style, args[2].agent_type)>>
    /\ UNCHANGED <<Quality, newsapi_client, response, requests, api_key, http, web, llm,
                   cache, prompts, events, frame, Limiter, args>>

NextKey == CallMakeKey

SpecKey == InitKey /\ [][NextKey]_vars

\* the request names an agent
NamesAgent(request) == request.agent_type \notin {"None", ""}

\* the requests agree on the lower-cased trimmed topic, on the style and on
\* the agent_type, an absent agent_type being a value of its own
SamePoolRequests(a, b) ==
    /\ strip(lower(a.topic)) = strip(lower(b.topic))
    /\ a.style = b.style
    /\ NamesAgent(a) = NamesAgent(b)
    /\ NamesAgent(a) => a.agent_type = b.agent_type

\* C29: two requests get the same cache key only if they agree on the
\* lower-cased trimmed topic, on the style and on the agent_type; a request
\* without agent_type never gets the key of a request that names an agent.
CacheKeyInjective ==
    fn = "_make_key" =>
        /\ ret[1] = ret[2] => SamePoolRequests(args[1], args[2])
        /\ (~NamesAgent(args[1]) /\ NamesAgent(args[2])) => ret[1] # ret[2]

\* ---------------------------------------------------------------------
\* extract_domain on its own results

\* values handed to extract_domain: a host, bare or in a url, in either
\* case, with "www." written zero, one or two times and with blanks around
ExtractPrefixes == {<<>>, WwwDot, WwwDot \o WwwDot, <<"W", "w", "w", ".">>}

ExtractSchemes == {<<>>, Scheme, <<"H", "T", "T", "P">> \o SchemeSep, Scheme \o <<" ">>}

ExtractHosts == {HostX, <<"Y", ".", "C">>, HostB}

ExtractTails == {<<>>, <<"/", "a">>, <<" ">>}

ExtractInputs ==
    {<<>>} \cup {scheme \o prefix \o host \o tail :
                    scheme \in ExtractSchemes, prefix \in ExtractPrefixes,
                    host \in ExtractHosts, tail \in ExtractTails}

InitExtract ==
    /\ NoClient
    /\ now = 0
    /\ allowlist = {}
    /\ blocklist = {}
    /\ trusted_domains = parse_domain_list(RawTrustedDomains)
    /\ score_weights = DefaultWeights
    /\ fn = "idle"
    /\ args \in {[value |-> value] : value \in ExtractInputs}
    /\ ret = <<>>

CallExtractDomain ==
    /\ fn = "idle"
    /\ ~extract_domain_raises(args.value)
    /\ fn' = "extract_domain"
    /\ ret' = extract_domain(args.value)
    /\ UNCHANGED <<Config, args>>

NextExtract == CallExtractDomain

SpecExtract == InitExtract /\ [][NextExtract]_vars

\* C30: the result of extract_domain is a fixed point of extract_domain, is
\* lower case and does not begin with "www.".
ExtractDomainNormalizes ==
    fn = "extract_domain" =>
        /\ ~extract_domain_raises(ret) /\ extract_domain(ret) = ret
        /\ lower(ret) = ret
        /\ ~startswith(ret, WwwDot)

====
